---- MODULE Spec2Model ----
(***************************************************************************)
(* vectra-guard: the exec pipeline (cmd/exec.go, cmd/root.go), the session *)
(* ledger (internal/session) and the sandbox execution decision            *)
(* (internal/sandbox), as state machines.                                  *)
(*                                                                         *)
(* Spec        the exec pipeline: one invocation of runExec, step by step, *)
(*             on a workspace that earlier invocations have written to.    *)
(* SpecDecide  the execution decision applied to analysed commands.        *)
(* SpecRisk    the risk level loop of runExec applied to lists of findings.*)
(* SpecLedger  clients of the session ledger working on one session file   *)
(*             at the same time, each through its own Manager.             *)
(* SpecStart   Manager.Start, Load and List on a sessions directory, with  *)
(*             the clock generateSessionID reads.                          *)
(***************************************************************************)
EXTENDS Integers, Sequences, FiniteSets, TLC

VARIABLES
    cfg,          \* config.Config: Sandbox.Enabled, Sandbox.Mode, Policies
    env,          \* value of VECTRAGUARD_SESSION_ID ("" when unset)
    trustStore,   \* commands held by the Trust Store
    files,        \* <workspace>/.vectra-guard/sessions/<id>.json, per id
    pc,           \* position of the running invocation
    cmdArgs,      \* runExec: cmdArgs
    interactive,  \* runExec: interactive
    flagSession,  \* execute: *sessionID, the value of the --session flag
    sessionID,    \* runExec: sessionID
    findings,     \* runExec: findings
    riskLevel,    \* runExec: riskLevel
    findingCodes, \* runExec: findingCodes
    response,     \* promptForApproval: the line read from stdin
    children,     \* child processes spawned by this invocation
    childExit,    \* runExec: exitCode
    sess,         \* runExec: sess, the session Manager.Load returned
    ledgerErr,    \* runExec: err of NewManager, Load and AddCommand ("" for nil)
    osExit,       \* the exit status of the vectra-guard process, once pc is done
    files0,       \* the session files as they were when the invocation began
    decision,     \* sandbox.ExecutionDecision of the invocation
    mpc,          \* per ledger client: its position in Load, the update and save
    mem,          \* per ledger client: the *Session it holds in memory
    merr,         \* per ledger client: the error its last Manager call returned
    upd,          \* per ledger client: the update whose save is under way
    acked,        \* the Command records whose AddCommand returned nil, in that order
    ops,          \* the number of updates the clients have begun
    listed,       \* the ids Manager.List returned last, and the ids it skipped
    clock,        \* time.Now().UnixNano(), as every process of the host reads it
    started,      \* the sessions Manager.Start returned, in the order of the returns
    loadRes,      \* the id and the error of the last Manager.Load
    dirOk,        \* os.ReadDir of the sessions directory succeeds
    lockFile,     \* <workspace>/.vectra-guard/daemon/daemon.lock exists
    pidFile,      \* daemon.pid: 0 when absent, -1 when not a number, else the pid
    dpc,          \* per daemon process: its position in Daemon.Start
    dpid,         \* per daemon process: os.Getpid()
    dret,         \* per daemon process: what Start returned ("" while it runs)
    dsess,        \* per daemon process: d.session
    dtrigger,     \* per daemon process: the case the select of Start took
    dendErr,      \* per daemon process: the error of sessionMgr.End that was logged
    runs,         \* the number of daemon processes launched
    active,       \* d.session is not nil
    interceptCh,  \* d.interceptCh: the calls whose Command is queued
    processor,    \* the processCommands goroutine: "none", "running" or "exited"
    stopped,      \* the case the select of Start took, "none" before
    stopCh,       \* d.stopCh: "open", "closed", or "panic" after a close of the closed channel
    calls,        \* per InterceptCommand call: position, reply channel, result, time
    tmem,         \* Trust Store: the entries the process holds, per fingerprint
    tfile,        \* Trust Store: the content of trust.json
    tnow,         \* Trust Store: now()
    tloaded,      \* Trust Store: how the process read trust.json when it started
    tres,         \* Trust Store: the command and the result of the lookup just made
    tlist,        \* Trust Store: the result of the list() just made
    tlast,        \* Trust Store: the last operation and whether it succeeded
    sandboxCfg,   \* buildDockerArgs: the SandboxConfig and what the builder reads
    sandboxCmd,   \* buildDockerArgs: cmdArgs
    dockerArgs    \* buildDockerArgs: the argument list built, <<>> before

ledgerVars == <<mpc, mem, merr, upd, acked, ops, listed>>

startVars == <<clock, started, loadRes, dirOk>>

daemonVars == <<lockFile, pidFile, dpc, dpid, dret, dsess, dtrigger, dendErr, runs>>

\* the variables of the specifications that follow SpecLedger
interceptVars == <<active, interceptCh, processor, stopped, stopCh, calls>>

trustVars == <<tmem, tfile, tnow, tloaded, tres, tlist, tlast>>

dockerVars == <<sandboxCfg, sandboxCmd, dockerArgs>>

otherVars == <<startVars, daemonVars, interceptVars, trustVars, dockerVars>>

\* the variables of the specifications that follow SpecTrust
trustRest == <<dockerVars>>

\* the variables of the specifications that follow SpecIntercept
interceptRest == <<trustVars, dockerVars>>

\* the variables of the specifications that follow SpecStart
startRest == <<daemonVars, interceptVars, trustVars, dockerVars>>

\* the variables of the specifications that follow SpecDaemon
daemonRest == <<interceptVars, trustVars, dockerVars>>

execVars == <<cfg, env, trustStore, pc, cmdArgs, interactive, flagSession, sessionID,
              findings, riskLevel, findingCodes, response, children, childExit,
              sess, ledgerErr, osExit, files0, decision>>

vars == <<execVars, files, ledgerVars, otherVars>>

(***************************************************************************)
(* Bounds                                                                  *)
(***************************************************************************)
\* the longest command list of a session that exists when an invocation begins
MaxPrior == 1

\* the longest list of findings the risk level loop is applied to
MaxFindings == 3

\* the number of updates the ledger clients begin
MaxOps == 2

\* the last value of the clock, and the number of sessions started
MaxClock == 2

MaxStarts == 2

\* the number of daemon processes launched on the workspace
MaxRuns == 3

\* the number of InterceptCommand calls, and the capacity of d.interceptCh
\* (make(chan Command, 100) in daemon.New)
MaxCalls == 2

QueueCap == 1

\* InterceptCommand: time.After(5 * time.Second), in seconds
ApprovalTimeout == 5

\* the last value of the Trust Store's clock
MaxNow == 3

\* the length of the command vector handed to the argument builder
MaxArgs == 2

None == "none"

(***************************************************************************)
(* Analyzer (internal/analyzer): commands are token vectors, findings are  *)
(* emitted in the order of the matcher table.                              *)
(***************************************************************************)
Commands ==
    { <<"echo", "test">>,
      <<"npm", "install", "express">>,
      <<"sudo", "ls">>,
      <<"curl", "http://x", "|", "sh">>,
      <<"cat", ".env">>,
      <<"rm", "-rf", "~">>,
      <<"rm", "-r", "/*">>,
      <<"sudo", "rm", "-rf", "/">>,
      <<"sudo", "cat", ".env">> }

HasTok(c, t) == \E i \in 1..Len(c) : c[i] = t

HasAnyTok(c, S) == \E i \in 1..Len(c) : c[i] \in S

RecursiveFlags == {"-r", "-rf", "-fr", "--recursive"}

SystemDirs == {"/bin", "/boot", "/etc", "/lib", "/proc", "/sbin", "/sys", "/usr", "/var"}

SystemDirGlobs ==
    {"/bin/*", "/boot/*", "/etc/*", "/lib/*", "/proc/*", "/sbin/*", "/sys/*", "/usr/*",
     "/var/*"}

RootTargets == {"/", "/*"} \cup SystemDirs \cup SystemDirGlobs

HomeTargets == {"~", "~/*", "$HOME", "$HOME/*"}

Fetchers == {"curl", "wget"}

Shells == {"sh", "bash", "zsh", "$SHELL"}

DotenvFiles == {".env", ".env.local", ".env.production"}

SecretVars == {"$API_TOKEN", "$AWS_SECRET", "$SSH_KEY", "$DB_PASSWORD"}

ForkBombs == {":(){ :|:& };:"}

\* a policy pattern matches a command when it equals the command's first token
MatchesPolicy(c, patterns) == Len(c) > 0 /\ c[1] \in patterns

PipeToShell(c) ==
    \E i \in 1..Len(c) :
        /\ c[i] = "|"
        /\ \E j \in 1..(i - 1) : c[j] \in Fetchers
        /\ \E k \in (i + 1)..Len(c) : c[k] \in Shells

Severity(code) ==
    CASE code = "DANGEROUS_DELETE_ROOT" -> "critical"
      [] code = "DANGEROUS_DELETE_HOME" -> "high"
      [] code = "FORK_BOMB"             -> "critical"
      [] code = "PIPE_TO_SHELL"         -> "high"
      [] code = "SUDO_UNRESTRICTED"     -> "medium"
      [] code = "DOTENV_FILE_READ"      -> "high"
      [] code = "SENSITIVE_ENV_ACCESS"  -> "high"
      [] code = "DEVICE_WRITE"          -> "critical"
      [] code = "POLICY_DENYLIST"       -> "critical"
      [] code = "POLICY_ALLOWLIST"      -> "low"

Finding(code) == [code |-> code, severity |-> Severity(code)]

Emit(cond, code) == IF cond THEN <<Finding(code)>> ELSE <<>>

\* variant: only the exact line rm -rf / is a root delete
AnalyzeScript_ExactRoot(c, policies) ==
    Emit(c = <<"rm", "-rf", "/">>, "DANGEROUS_DELETE_ROOT")

AnalyzeScript(c, policies) ==
    Emit(HasTok(c, "rm") /\ HasAnyTok(c, RecursiveFlags)
            /\ (HasAnyTok(c, RootTargets) \/ HasTok(c, "--no-preserve-root")),
         "DANGEROUS_DELETE_ROOT")
    \o Emit(HasTok(c, "rm") /\ HasAnyTok(c, RecursiveFlags) /\ HasAnyTok(c, HomeTargets),
            "DANGEROUS_DELETE_HOME")
    \o Emit(HasAnyTok(c, ForkBombs), "FORK_BOMB")
    \o Emit(PipeToShell(c), "PIPE_TO_SHELL")
    \o Emit(HasTok(c, "sudo"), "SUDO_UNRESTRICTED")
    \o Emit(HasAnyTok(c, DotenvFiles), "DOTENV_FILE_READ")
    \o Emit(HasAnyTok(c, SecretVars), "SENSITIVE_ENV_ACCESS")
    \o Emit(HasTok(c, "dd") /\ HasTok(c, "of=/dev/sda"), "DEVICE_WRITE")
    \o Emit(MatchesPolicy(c, policies.denylist), "POLICY_DENYLIST")
    \o Emit(MatchesPolicy(c, policies.allowlist), "POLICY_ALLOWLIST")

(***************************************************************************)
(* runExec, lines 34-53: the risk level and the finding codes              *)
(***************************************************************************)
\* variant: the guards of the high and medium cases are missing, so that the
\* last finding that is not low wins
RiskStep_LastWins(level, sev) ==
    IF sev \in {"critical", "high", "medium"} THEN sev ELSE level

RiskStep(level, sev) ==
    CASE sev = "critical" -> "critical"
      [] sev = "high"     -> IF level # "critical" THEN "high" ELSE level
      [] sev = "medium"   -> IF level # "critical" /\ level # "high" THEN "medium" ELSE level
      [] OTHER            -> level

RECURSIVE RiskFrom(_, _, _)
RiskFrom(fs, i, level) ==
    IF i > Len(fs) THEN level
    ELSE RiskFrom(fs, i + 1, RiskStep(level, fs[i].severity))

RiskLevelOf(fs) == RiskFrom(fs, 1, "low")

FindingCodesOf(fs) == [i \in 1..Len(fs) |-> fs[i].code]

(***************************************************************************)
(* Sandbox executor (internal/sandbox): the execution decision             *)
(***************************************************************************)
Modes == {"auto", "always", "risky", "never"}

\* variant: the list "Critical Command Codes" of the improvement notes
MandatorySandboxCodes_Notes ==
    {"DANGEROUS_DELETE_ROOT", "DANGEROUS_DELETE_HOME", "FORK_BOMB",
     "SENSITIVE_ENV_ACCESS", "DOTENV_FILE_READ"}

MandatorySandboxCodes ==
    {"DANGEROUS_DELETE_ROOT", "DANGEROUS_DELETE_HOME", "FORK_BOMB", "DEVICE_WRITE",
     "SENSITIVE_ENV_ACCESS", "DOTENV_FILE_READ", "POLICY_DENYLIST"}

HasMandatoryCode(fs) == \E i \in 1..Len(fs) : fs[i].code \in MandatorySandboxCodes

\* Rule 1 as the source states it: the codes are looked at only for a
\* command whose risk level is critical
MandatoryRule(risk, fs) == risk = "critical" /\ HasMandatoryCode(fs)

InstallManagers ==
    {"npm", "yarn", "pnpm", "pip", "pip3", "cargo", "go", "gem", "apt", "apt-get", "brew"}

InstallVerbs == {"install", "get", "add", "i"}

CacheManagers ==
    {"npm", "yarn", "pnpm", "pip", "pip3", "cargo", "go", "gem", "mvn", "gradle"}

isNetworkedInstall(c) ==
    /\ Len(c) > 0
    /\ c[1] \in InstallManagers
    /\ \E i \in 2..Len(c) : c[i] \in InstallVerbs

\* variant: Sandbox.EnableCache is not looked at
shouldEnableCache_AnyConfig(config, c) == Len(c) > 0 /\ c[1] \in CacheManagers

shouldEnableCache(config, c) ==
    config.enableCache /\ Len(c) > 0 /\ c[1] \in CacheManagers

Sandboxed(config, c, why, forced) ==
    [mode |-> "sandbox", reason |-> why,
     shouldCache |-> shouldEnableCache(config, c), mandatory |-> forced]

NoDecision ==
    [mode |-> "none", reason |-> "", shouldCache |-> FALSE, mandatory |-> FALSE]

OnHost(why) ==
    [mode |-> "host", reason |-> why, shouldCache |-> FALSE, mandatory |-> FALSE]

Medium == {"medium", "high", "critical"}

\* variant: the low-risk rule does not look for a networked install
DecideExecutionMode_LowAlwaysHost(config, c, risk, fs) ==
    IF MandatoryRule(risk, fs)
        THEN Sandboxed(config, c, "mandatory sandbox for critical command", TRUE)
    ELSE IF ~config.enabled
        THEN OnHost("sandboxing disabled in config")
    ELSE IF config.mode = "never"
        THEN OnHost("sandboxing disabled by mode")
    ELSE IF config.mode = "always"
        THEN Sandboxed(config, c, "always-sandbox mode enabled", FALSE)
    ELSE IF MatchesPolicy(c, config.allowlist)
        THEN OnHost("matches allowlist pattern")
    ELSE IF risk = "low"
        THEN OnHost("low risk, no isolation needed")
    ELSE IF config.mode = "risky" /\ risk \in Medium
        THEN Sandboxed(config, c, "", FALSE)
    ELSE IF config.mode = "auto" /\ (risk \in Medium \/ isNetworkedInstall(c))
        THEN Sandboxed(config, c, "", FALSE)
    ELSE OnHost("")

\* variant: the allowlist is looked at after the risk level
DecideExecutionMode_AllowlistLast(config, c, risk, fs) ==
    IF MandatoryRule(risk, fs)
        THEN Sandboxed(config, c, "mandatory sandbox for critical command", TRUE)
    ELSE IF ~config.enabled
        THEN OnHost("sandboxing disabled in config")
    ELSE IF config.mode = "never"
        THEN OnHost("sandboxing disabled by mode")
    ELSE IF config.mode = "always"
        THEN Sandboxed(config, c, "always-sandbox mode enabled", FALSE)
    ELSE IF risk = "low" /\ ~isNetworkedInstall(c)
        THEN OnHost("low risk, no isolation needed")
    ELSE IF config.mode = "risky" /\ risk \in Medium
        THEN Sandboxed(config, c, "", FALSE)
    ELSE IF config.mode = "auto" /\ (risk \in Medium \/ isNetworkedInstall(c))
        THEN Sandboxed(config, c, "", FALSE)
    ELSE IF MatchesPolicy(c, config.allowlist)
        THEN OnHost("matches allowlist pattern")
    ELSE OnHost("")

\* variant: the allowlist is looked at before Sandbox.Mode
DecideExecutionMode_AllowlistFirst(config, c, risk, fs) ==
    IF MandatoryRule(risk, fs)
        THEN Sandboxed(config, c, "mandatory sandbox for critical command", TRUE)
    ELSE IF ~config.enabled
        THEN OnHost("sandboxing disabled in config")
    ELSE IF MatchesPolicy(c, config.allowlist)
        THEN OnHost("matches allowlist pattern")
    ELSE IF config.mode = "never"
        THEN OnHost("sandboxing disabled by mode")
    ELSE IF config.mode = "always"
        THEN Sandboxed(config, c, "always-sandbox mode enabled", FALSE)
    ELSE IF risk = "low" /\ ~isNetworkedInstall(c)
        THEN OnHost("low risk, no isolation needed")
    ELSE IF config.mode = "risky" /\ risk \in Medium
        THEN Sandboxed(config, c, "", FALSE)
    ELSE IF config.mode = "auto" /\ (risk \in Medium \/ isNetworkedInstall(c))
        THEN Sandboxed(config, c, "", FALSE)
    ELSE OnHost("")

\* variant: a networked install is sandboxed under Mode risky as well
DecideExecutionMode_InstallAnyMode(config, c, risk, fs) ==
    IF MandatoryRule(risk, fs)
        THEN Sandboxed(config, c, "mandatory sandbox for critical command", TRUE)
    ELSE IF ~config.enabled
        THEN OnHost("sandboxing disabled in config")
    ELSE IF config.mode = "never"
        THEN OnHost("sandboxing disabled by mode")
    ELSE IF config.mode = "always"
        THEN Sandboxed(config, c, "always-sandbox mode enabled", FALSE)
    ELSE IF MatchesPolicy(c, config.allowlist)
        THEN OnHost("matches allowlist pattern")
    ELSE IF risk = "low" /\ ~isNetworkedInstall(c)
        THEN OnHost("low risk, no isolation needed")
    ELSE IF config.mode = "risky" /\ risk \in Medium
        THEN Sandboxed(config, c, "", FALSE)
    ELSE IF risk \in Medium \/ isNetworkedInstall(c)
        THEN Sandboxed(config, c, "", FALSE)
    ELSE OnHost("")

DecideExecutionMode(config, c, risk, fs) ==
    IF MandatoryRule(risk, fs)
        THEN Sandboxed(config, c, "mandatory sandbox for critical command", TRUE)
    ELSE IF ~config.enabled
        THEN OnHost("sandboxing disabled in config")
    ELSE IF config.mode = "never"
        THEN OnHost("sandboxing disabled by mode")
    ELSE IF config.mode = "always"
        THEN Sandboxed(config, c, "always-sandbox mode enabled", FALSE)
    ELSE IF MatchesPolicy(c, config.allowlist)
        THEN OnHost("matches allowlist pattern")
    ELSE IF risk = "low" /\ ~isNetworkedInstall(c)
        THEN OnHost("low risk, no isolation needed")
    ELSE IF config.mode = "risky" /\ risk \in Medium
        THEN Sandboxed(config, c, "", FALSE)
    ELSE IF config.mode = "auto" /\ (risk \in Medium \/ isNetworkedInstall(c))
        THEN Sandboxed(config, c, "", FALSE)
    ELSE OnHost("")

(***************************************************************************)
(* Session ledger (internal/session)                                       *)
(***************************************************************************)
SessionIds == {"s1", "s2"}

Absent == [kind |-> "absent"]

Malformed == [kind |-> "malformed"]

EmptySession ==
    [kind |-> "session", commands |-> <<>>, fileOps |-> <<>>, riskScore |-> 0, violations |-> 0, ended |-> FALSE]

IsSession(f) == f.kind = "session"

\* variant: the score is assigned, not added to
AddCommand_ScoreAssigned(s, cmd) ==
    [s EXCEPT !.commands = Append(@, cmd),
              !.riskScore = CASE cmd.riskLevel = "critical" -> 100
                              [] cmd.riskLevel = "high"     -> 50
                              [] cmd.riskLevel = "medium"   -> 10
                              [] OTHER                      -> @,
              !.violations = IF cmd.riskLevel \in {"critical", "high"} THEN @ + 1 ELSE @]

\* Manager.AddCommand up to the save: append, then the risk score
AddCommand(s, cmd) ==
    [s EXCEPT !.commands = Append(@, cmd),
              !.riskScore = CASE cmd.riskLevel = "critical" -> @ + 100
                              [] cmd.riskLevel = "high"     -> @ + 50
                              [] cmd.riskLevel = "medium"   -> @ + 10
                              [] OTHER                      -> @,
              !.violations = IF cmd.riskLevel \in {"critical", "high"} THEN @ + 1 ELSE @]

\* variant: a denied operation raises the score and is not counted
AddFileOperation_ScoreOnly(s, op) ==
    [s EXCEPT !.fileOps = Append(@, op),
              !.riskScore = IF ~op.allowed THEN @ + 25 ELSE @]

\* Manager.AddFileOperation up to the save
AddFileOperation(s, op) ==
    [s EXCEPT !.fileOps = Append(@, op),
              !.violations = IF ~op.allowed THEN @ + 1 ELSE @,
              !.riskScore = IF ~op.allowed THEN @ + 25 ELSE @]

\* Manager.End up to the save: EndTime is set, nothing else
\* variant: End saves the session as it is
End_NoEndTime(s) == s

End(s) == [s EXCEPT !.ended = TRUE]


\* a command an earlier invocation recorded
PriorCommand ==
    [command |-> "sudo", args |-> <<"ls">>, exitCode |-> 0, riskLevel |-> "medium",
     approved |-> FALSE, findings |-> <<"SUDO_UNRESTRICTED">>]

RECURSIVE PriorSession(_)
PriorSession(n) ==
    IF n = 0 THEN EmptySession ELSE AddCommand(PriorSession(n - 1), PriorCommand)

\* Manager.save: os.WriteFile truncates the file and writes the new content;
\* when it fails the file is as it was, or cut short
SaveResults(old, s) == {[ok |-> TRUE, file |-> s]}
                       \cup {[ok |-> FALSE, file |-> f] : f \in {old, Malformed}}

\* no ledger client is at work
NoClients ==
    /\ mpc = <<>>
    /\ mem = <<>>
    /\ merr = <<>>
    /\ upd = <<>>
    /\ acked = <<>>
    /\ ops = 0
    /\ listed = [ok |-> {}, skipped |-> {}]

\* no Manager.Start, Load or List is looked at
NoStarts ==
    /\ clock = 0
    /\ started = <<>>
    /\ loadRes = [id |-> "", err |-> ""]
    /\ dirOk = TRUE

\* no daemon process was launched
NoDaemons ==
    /\ lockFile = FALSE
    /\ pidFile = 0
    /\ dpc = <<>>
    /\ dpid = <<>>
    /\ dret = <<>>
    /\ dsess = <<>>
    /\ dtrigger = <<>>
    /\ dendErr = <<>>
    /\ runs = 0

\* no InterceptCommand call was made
NoIntercepts ==
    /\ active = FALSE
    /\ interceptCh = <<>>
    /\ processor = None
    /\ stopped = None
    /\ stopCh = "open"
    /\ calls = <<>>

\* the Trust Store is not looked at
NoTrust ==
    /\ tmem = <<>>
    /\ tfile = Absent
    /\ tnow = 0
    /\ tloaded = None
    /\ tres = <<>>
    /\ tlist = <<>>
    /\ tlast = None

\* no argument list is built
NoDocker ==
    /\ sandboxCfg = <<>>
    /\ sandboxCmd = <<>>
    /\ dockerArgs = <<>>

NoOthers == NoStarts /\ NoDaemons /\ NoIntercepts /\ NoTrust /\ NoDocker

NoStartRest == NoDaemons /\ NoIntercepts /\ NoTrust /\ NoDocker

NoDaemonRest == NoIntercepts /\ NoTrust /\ NoDocker

NoInterceptRest == NoTrust /\ NoDocker

NoTrustRest == NoDocker

(***************************************************************************)
(* cmd/root.go Execute: the exit status of the process                     *)
(***************************************************************************)
NilErr == [kind |-> "nil", code |-> 0]

exitError(c) == [kind |-> "exit", code |-> c]

OtherErr == [kind |-> "other", code |-> 0]

\* variant: the code of an exitError is not looked at
Execute_NoCode(err) == IF err.kind = "nil" THEN 0 ELSE 1

Execute(err) ==
    IF err.kind = "nil" THEN 0
    ELSE IF err.kind = "exit" THEN err.code % 256
    ELSE 1

(***************************************************************************)
(* Inputs                                                                  *)
(***************************************************************************)
PolicySets ==
    { [allowlist |-> {}, denylist |-> {}],
      [allowlist |-> {"echo", "sudo", "rm"}, denylist |-> {}],
      [allowlist |-> {}, denylist |-> {"npm"}] }

Configs ==
    { [enabled |-> e, mode |-> m, enableCache |-> k,
       allowlist |-> p.allowlist, denylist |-> p.denylist] :
        e \in BOOLEAN, m \in Modes, k \in BOOLEAN, p \in PolicySets }

ExecConfigs == { c \in Configs : c.mode = "auto" /\ c.enableCache }

ExecCommands ==
    { <<"echo", "test">>, <<"npm", "install", "express">>, <<"sudo", "ls">>,
      <<"rm", "-rf", "~">>, <<"rm", "-r", "/*">>, <<"sudo", "rm", "-rf", "/">> }

Responses == {"y", "Y", "yes", "r", "n", "N", ""}

\* strings.ToLower(strings.TrimSpace(response)) on the answers above
Normalize(r) == IF r = "Y" THEN "y" ELSE IF r = "N" THEN "n" ELSE r

ChildCodes == {0, 1, 3}

ChildOutcomes ==
    { [kind |-> "exited", code |-> c] : c \in ChildCodes }
    \cup { [kind |-> "signaled", code |-> 0], [kind |-> "startfail", code |-> 0] }

(***************************************************************************)
(* The exec pipeline: cmd/exec.go runExec                                  *)
(***************************************************************************)
Init ==
    /\ cfg \in ExecConfigs
    /\ env \in {"", "s1"}
    /\ trustStore \in {{}, {<<"rm", "-r", "/*">>}}
    /\ files \in [SessionIds -> {Absent} \cup {PriorSession(n) : n \in 0..MaxPrior}]
    /\ pc = "idle"
    /\ cmdArgs = <<>>
    /\ interactive = FALSE
    /\ flagSession = ""
    /\ sessionID = ""
    /\ findings = <<>>
    /\ riskLevel = "low"
    /\ findingCodes = <<>>
    /\ response = None
    /\ children = <<>>
    /\ childExit = 0
    /\ sess = Absent
    /\ ledgerErr = ""
    /\ osExit = 0
    /\ files0 = files
    /\ decision = NoDecision
    /\ NoClients
    /\ NoOthers

\* variant: every non-empty answer approves
promptForApproval_AnyAnswer(resp) == Normalize(resp) # ""

\* promptForApproval: true on y or yes only
promptForApproval(resp) == Normalize(resp) \in {"y", "yes"}

\* variant: the level compared with a string the loop never assigns
criticalBlocked_WrongCase(inter, risk) == ~inter /\ risk = "CRITICAL"

\* runExec lines 74-79: a critical command is blocked unless --interactive
criticalBlocked(inter, risk) == ~inter /\ risk = "critical"

\* runExec lines 17-64, and the non-interactive branch of lines 66-80
Begin(c, inter, sid) ==
    /\ pc = "idle"
    /\ cmdArgs' = c
    /\ interactive' = inter
    /\ flagSession' = sid
    /\ sessionID' = sid
    /\ findings' = AnalyzeScript(c, cfg)
    /\ riskLevel' = RiskLevelOf(findings')
    /\ findingCodes' = FindingCodesOf(findings')
    /\ response' = None
    /\ children' = <<>>
    /\ childExit' = 0
    /\ sess' = Absent
    /\ ledgerErr' = ""
    /\ files0' = files
    /\ IF Len(findings') > 0 /\ inter
         THEN pc' = "prompt" /\ osExit' = 0
       ELSE IF Len(findings') > 0 /\ criticalBlocked(inter, riskLevel')
         THEN pc' = "done" /\ osExit' = Execute(exitError(3))
       ELSE pc' = "run" /\ osExit' = 0
    /\ UNCHANGED <<ledgerVars, otherVars>>
    /\ UNCHANGED <<cfg, env, trustStore, files, decision>>

\* runExec lines 67-73: the answer read at the prompt
Prompt(resp) ==
    /\ pc = "prompt"
    /\ response' = resp
    /\ IF promptForApproval(resp)
         THEN pc' = "run" /\ osExit' = osExit
         ELSE pc' = "done" /\ osExit' = Execute(exitError(3))
    /\ UNCHANGED <<ledgerVars, otherVars>>
    /\ UNCHANGED <<cfg, env, trustStore, files, cmdArgs, interactive, flagSession, sessionID,
                   findings, riskLevel, findingCodes, children, childExit, sess, ledgerErr,
                   files0, decision>>

\* cmd.Run returns an error that is no ExitError when the child could not be started
Started(out) == out.kind # "startfail"

\* exec.ExitError.ExitCode: the exit code, -1 for a child a signal ended
ExitCode(out) == IF out.kind = "exited" THEN out.code ELSE -1

\* runExec lines 82-106: exec.Command(cmdName, args...).Run() on the host
RunChild(out) ==
    /\ pc = "run"
    /\ IF Started(out)
         THEN /\ children' = Append(children,
                                   [where |-> "host", argv |-> cmdArgs, outcome |-> out])
              /\ childExit' = ExitCode(out)
              /\ pc' = IF sessionID # "" \/ env # "" THEN "load" ELSE "return"
              /\ osExit' = osExit
         ELSE /\ pc' = "done"
              /\ osExit' = Execute(OtherErr)
              /\ UNCHANGED <<children, childExit>>
    /\ UNCHANGED <<ledgerVars, otherVars>>
    /\ UNCHANGED <<cfg, env, trustStore, files, cmdArgs, interactive, flagSession, sessionID,
                   findings, riskLevel, findingCodes, response, sess, ledgerErr, files0,
                   decision>>

\* variant: the environment wins over the flag
boundSession_EnvFirst(sid, envID) == IF envID # "" THEN envID ELSE sid

\* runExec lines 106-109: --session first, then VECTRAGUARD_SESSION_ID
boundSession(sid, envID) == IF sid = "" THEN envID ELSE sid

\* runExec lines 107-115: the bound session id, NewManager and Manager.Load;
\* mkdirOk: os.MkdirAll of the sessions directory succeeds
LoadSession(mkdirOk) ==
    /\ pc = "load"
    /\ sessionID' = boundSession(sessionID, env)
    /\ IF ~mkdirOk
         THEN sess' = sess /\ ledgerErr' = "create session directory" /\ pc' = "return"
       ELSE IF files[sessionID'] = Absent
         THEN sess' = sess /\ ledgerErr' = "read session" /\ pc' = "return"
       ELSE IF files[sessionID'] = Malformed
         THEN sess' = sess /\ ledgerErr' = "parse session" /\ pc' = "return"
       ELSE sess' = files[sessionID'] /\ ledgerErr' = "" /\ pc' = "save"
    /\ UNCHANGED <<ledgerVars, otherVars>>
    /\ UNCHANGED <<cfg, env, trustStore, files, cmdArgs, interactive, flagSession, findings,
                   riskLevel, findingCodes, response, children, childExit, osExit,
                   files0, decision>>

\* variant: every recorded command counts as approved
cmdRecord_AlwaysApproved ==
    [command   |-> Head(cmdArgs),
     args      |-> Tail(cmdArgs),
     exitCode  |-> childExit,
     riskLevel |-> riskLevel,
     approved  |-> TRUE,
     findings  |-> findingCodes]

cmdRecord ==
    [command   |-> Head(cmdArgs),
     args      |-> Tail(cmdArgs),
     exitCode  |-> childExit,
     riskLevel |-> riskLevel,
     approved  |-> (interactive \/ riskLevel = "low"),
     findings  |-> findingCodes]

\* runExec lines 116-126: Manager.AddCommand, whose error is dropped
SaveCommand ==
    /\ pc = "save"
    /\ \E r \in SaveResults(files[sessionID], AddCommand(sess, cmdRecord)) :
            /\ files' = [files EXCEPT ![sessionID] = r.file]
            /\ ledgerErr' = IF r.ok THEN "" ELSE "write session"
    /\ pc' = "return"
    /\ UNCHANGED <<ledgerVars, otherVars>>
    /\ UNCHANGED <<cfg, env, trustStore, cmdArgs, interactive, flagSession, sessionID, findings,
                   riskLevel, findingCodes, response, children, childExit, sess,
                   osExit, files0, decision>>

\* runExec lines 131-143 and Execute: the child's exit code becomes the status
Return ==
    /\ pc = "return"
    /\ osExit' = IF childExit # 0 THEN Execute(exitError(childExit)) ELSE Execute(NilErr)
    /\ pc' = "done"
    /\ UNCHANGED <<ledgerVars, otherVars>>
    /\ UNCHANGED <<cfg, env, trustStore, files, cmdArgs, interactive, flagSession, sessionID,
                   findings, riskLevel, findingCodes, response, children, childExit,
                   sess, ledgerErr, files0, decision>>

Next ==
    \/ \E c \in ExecCommands, inter \in BOOLEAN, sid \in {""} \cup SessionIds :
            Begin(c, inter, sid)
    \/ \E resp \in Responses : Prompt(resp)
    \/ \E out \in ChildOutcomes : RunChild(out)
    \/ \E mkdirOk \in BOOLEAN : LoadSession(mkdirOk)
    \/ SaveCommand
    \/ Return

Spec == Init /\ [][Next]_vars

(***************************************************************************)
(* The execution decision applied to analysed commands                     *)
(***************************************************************************)
DecideCommands ==
    Commands \cup { <<"echo", "$API_TOKEN">>, <<":(){ :|:& };:">>,
                    <<"dd", "if=/dev/zero", "of=/dev/sda">>, <<"yarn", "build">> }

InitDecide ==
    /\ cfg \in Configs
    /\ env = ""
    /\ trustStore \in {{}, {<<"rm", "-r", "/*">>, <<"rm", "-rf", "~">>, <<"sudo", "ls">>}}
    /\ files = [id \in SessionIds |-> Absent]
    /\ pc = "d_idle"
    /\ cmdArgs = <<>>
    /\ interactive = FALSE
    /\ flagSession = ""
    /\ sessionID = ""
    /\ findings = <<>>
    /\ riskLevel = "low"
    /\ findingCodes = <<>>
    /\ response = None
    /\ children = <<>>
    /\ childExit = 0
    /\ sess = Absent
    /\ ledgerErr = ""
    /\ osExit = 0
    /\ files0 = files
    /\ decision = NoDecision
    /\ NoClients
    /\ NoOthers

\* the Supervisor's steps 1 and 2: the findings and the risk level of a command
Analyze(c) ==
    /\ pc = "d_idle"
    /\ cmdArgs' = c
    /\ findings' = AnalyzeScript(c, cfg)
    /\ riskLevel' = RiskLevelOf(findings')
    /\ findingCodes' = FindingCodesOf(findings')
    /\ pc' = "d_analyzed"
    /\ UNCHANGED <<ledgerVars, otherVars>>
    /\ UNCHANGED <<cfg, env, trustStore, files, interactive, flagSession, sessionID,
                   response, children, childExit, sess, ledgerErr, osExit, files0, decision>>

\* the Supervisor's step 3: the decision for the analysed command
Decide ==
    /\ pc = "d_analyzed"
    /\ decision' = DecideExecutionMode(cfg, cmdArgs, riskLevel, findings)
    /\ pc' = "d_done"
    /\ UNCHANGED <<ledgerVars, otherVars>>
    /\ UNCHANGED <<cfg, env, trustStore, files, cmdArgs, interactive, flagSession,
                   sessionID, findings, riskLevel, findingCodes, response, children,
                   childExit, sess, ledgerErr, osExit, files0>>

RiskLevels == {"low", "medium", "high", "critical"}

\* DecideExecutionMode called as its tests call it: with a risk level of the
\* caller's choice and nil findings
DecideGiven(c, risk) ==
    /\ pc = "d_idle"
    /\ cmdArgs' = c
    /\ findings' = <<>>
    /\ riskLevel' = risk
    /\ findingCodes' = <<>>
    /\ decision' = DecideExecutionMode(cfg, c, risk, <<>>)
    /\ pc' = "d_done"
    /\ UNCHANGED <<ledgerVars, otherVars>>
    /\ UNCHANGED <<cfg, env, trustStore, files, interactive, flagSession, sessionID,
                   response, children, childExit, sess, ledgerErr, osExit, files0>>

NextDecide ==
    \/ \E c \in DecideCommands : Analyze(c)
    \/ Decide
    \/ \E c \in DecideCommands, risk \in RiskLevels : DecideGiven(c, risk)

SpecDecide == InitDecide /\ [][NextDecide]_vars

(***************************************************************************)
(* The risk level loop of runExec applied to lists of findings             *)
(***************************************************************************)
\* one finding of each severity
RiskFindings ==
    { Finding(code) : code \in {"DANGEROUS_DELETE_ROOT", "PIPE_TO_SHELL",
                                "SUDO_UNRESTRICTED", "POLICY_ALLOWLIST"} }

SeqsUpTo(S, n) == UNION { [1..k -> S] : k \in 0..n }

InitRisk ==
    /\ cfg \in ExecConfigs
    /\ env = ""
    /\ trustStore = {}
    /\ files = [id \in SessionIds |-> Absent]
    /\ pc = "r_idle"
    /\ cmdArgs = <<>>
    /\ interactive = FALSE
    /\ flagSession = ""
    /\ sessionID = ""
    /\ findings \in SeqsUpTo(RiskFindings, MaxFindings)
    /\ riskLevel = "low"
    /\ findingCodes = <<>>
    /\ response = None
    /\ children = <<>>
    /\ childExit = 0
    /\ sess = Absent
    /\ ledgerErr = ""
    /\ osExit = 0
    /\ files0 = files
    /\ decision = NoDecision
    /\ NoClients
    /\ NoOthers

\* runExec lines 34-53 on the findings the analyzer returned
Classify ==
    /\ pc = "r_idle"
    /\ riskLevel' = RiskLevelOf(findings)
    /\ findingCodes' = FindingCodesOf(findings)
    /\ pc' = "r_done"
    /\ UNCHANGED <<ledgerVars, otherVars>>
    /\ UNCHANGED <<cfg, env, trustStore, files, cmdArgs, interactive, flagSession, sessionID,
                   findings, response, children, childExit, sess, ledgerErr, osExit,
                   files0, decision>>

NextRisk == Classify

SpecRisk == InitRisk /\ [][NextRisk]_vars

(***************************************************************************)
(* The session ledger under several clients.  A client is a process with   *)
(* its own Manager: an exec invocation (Load, AddCommand), the daemon      *)
(* (which keeps its *Session and updates it again and again), session end. *)
(***************************************************************************)
Clients == {"c1", "c2"}

\* the session the clients work on
Shared == "s1"

\* the Command a client records as the n-th update
LedgerCommand(c, n, risk) ==
    [timestamp |-> n, command |-> "echo", args |-> <<c>>, exitCode |-> 0,
     riskLevel |-> risk, approved |-> (risk = "low"), findings |-> <<>>]

\* the FileOperation a client records as the n-th update
LedgerFileOp(c, n, allowed) ==
    [timestamp |-> n, operation |-> "write", path |-> c, allowed |-> allowed]

\* the length of the JSON text of a session grows with what it lists
Size(s) == Len(s.commands) + Len(s.fileOps) + (IF s.ended THEN 1 ELSE 0)

\* os.WriteFile, the write after the open: the bytes go to the start of the
\* file; what another writer put there since the open stays behind them when
\* it is longer
WriteOver(old, new) ==
    IF IsSession(old) /\ Size(old) > Size(new) THEN Malformed ELSE new

InitLedger ==
    /\ cfg \in {c \in ExecConfigs : c.allowlist = {} /\ c.denylist = {} /\ c.enabled}
    /\ env = Shared
    /\ trustStore = {}
    /\ files = [id \in SessionIds |-> IF id = Shared THEN EmptySession ELSE Absent]
    /\ pc = "ledger"
    /\ cmdArgs = <<>>
    /\ interactive = FALSE
    /\ flagSession = ""
    /\ sessionID = ""
    /\ findings = <<>>
    /\ riskLevel = "low"
    /\ findingCodes = <<>>
    /\ response = None
    /\ children = <<>>
    /\ childExit = 0
    /\ sess = Absent
    /\ ledgerErr = ""
    /\ osExit = 0
    /\ files0 = files
    /\ decision = NoDecision
    /\ mpc = [c \in Clients |-> "idle"]
    /\ mem = [c \in Clients |-> Absent]
    /\ merr = [c \in Clients |-> ""]
    /\ upd = [c \in Clients |-> [op |-> "", n |-> 0]]
    /\ acked = <<>>
    /\ ops = 0
    /\ listed = [ok |-> {}, skipped |-> {}]
    /\ NoOthers

\* Manager.Load by a client that holds no session, or that starts over
LoadBy(c) ==
    /\ mpc[c] \in {"idle", "loaded"}
    /\ IF IsSession(files[Shared])
         THEN /\ mem' = [mem EXCEPT ![c] = files[Shared]]
              /\ mpc' = [mpc EXCEPT ![c] = "loaded"]
              /\ merr' = [merr EXCEPT ![c] = ""]
         ELSE /\ mem' = [mem EXCEPT ![c] = Absent]
              /\ mpc' = [mpc EXCEPT ![c] = "idle"]
              /\ merr' = [merr EXCEPT ![c] = IF files[Shared] = Absent THEN "read session"
                                               ELSE "parse session"]
    /\ UNCHANGED <<execVars, otherVars, files, upd, acked, ops, listed>>

\* an update of the session a client holds is the n-th update the clients
\* begin; the call of save comes next
Begun(c, op) ==
    /\ ops' = ops + 1
    /\ upd' = [upd EXCEPT ![c] = [op |-> op, n |-> ops']]
    /\ mpc' = [mpc EXCEPT ![c] = "open"]

\* Manager.AddCommand, lines 136-148
AddCommandBy(c, risk) ==
    /\ mpc[c] = "loaded"
    /\ ops < MaxOps
    /\ mem' = [mem EXCEPT ![c] = AddCommand(@, LedgerCommand(c, ops + 1, risk))]
    /\ Begun(c, "addCommand")
    /\ UNCHANGED <<execVars, otherVars, files, merr, acked, listed>>

\* Manager.AddFileOperation, lines 155-160
AddFileOperationBy(c, allowed) ==
    /\ mpc[c] = "loaded"
    /\ ops < MaxOps
    /\ mem' = [mem EXCEPT ![c] = AddFileOperation(@, LedgerFileOp(c, ops + 1, allowed))]
    /\ Begun(c, "addFileOperation")
    /\ UNCHANGED <<execVars, otherVars, files, merr, acked, listed>>

\* Manager.End, lines 115-116
EndBy(c) ==
    /\ mpc[c] = "loaded"
    /\ ops < MaxOps
    /\ mem' = [mem EXCEPT ![c] = End(@)]
    /\ Begun(c, "end")
    /\ UNCHANGED <<execVars, otherVars, files, merr, acked, listed>>

\* Manager.save, os.WriteFile: the open with O_TRUNC empties the file
SaveOpen(c, ok) ==
    /\ mpc[c] = "open"
    /\ IF ok
         THEN /\ files' = [files EXCEPT ![Shared] = Malformed]
              /\ mpc' = [mpc EXCEPT ![c] = "write"]
              /\ merr' = merr
         ELSE /\ files' = files
              /\ mpc' = [mpc EXCEPT ![c] = "loaded"]
              /\ merr' = [merr EXCEPT ![c] = "write session"]
    /\ UNCHANGED <<execVars, otherVars, mem, upd, acked, ops, listed>>

\* Manager.save, os.WriteFile: the write and the close; save returns nil and
\* with that the update is acknowledged
SaveWrite(c, ok) ==
    /\ mpc[c] = "write"
    /\ mpc' = [mpc EXCEPT ![c] = "loaded"]
    /\ IF ok
         THEN /\ files' = [files EXCEPT ![Shared] = WriteOver(@, mem[c])]
              /\ acked' = Append(acked, upd[c])
              /\ merr' = [merr EXCEPT ![c] = ""]
         ELSE /\ files' = files
              /\ acked' = acked
              /\ merr' = [merr EXCEPT ![c] = "write session"]
    /\ UNCHANGED <<execVars, otherVars, mem, upd, ops, listed>>

\* Manager.List: the sessions that load, and the files it warns about and skips
List ==
    /\ listed' = [ok      |-> {id \in SessionIds : IsSession(files[id])},
                  skipped |-> {id \in SessionIds : files[id] = Malformed}]
    /\ listed' # listed
    /\ UNCHANGED <<execVars, otherVars, files, mpc, mem, merr, upd, acked, ops>>

NextLedger ==
    \/ \E c \in Clients : LoadBy(c)
    \/ \E c \in Clients, risk \in RiskLevels : AddCommandBy(c, risk)
    \/ \E c \in Clients, allowed \in BOOLEAN : AddFileOperationBy(c, allowed)
    \/ \E c \in Clients : EndBy(c)
    \/ \E c \in Clients, ok \in BOOLEAN : SaveOpen(c, ok)
    \/ \E c \in Clients, ok \in BOOLEAN : SaveWrite(c, ok)
    \/ List

SpecLedger == InitLedger /\ [][NextLedger]_vars

(***************************************************************************)
(* The Analyzer on the lines of a script                                   *)
(***************************************************************************)
\* the root deletes of the security tests, as the tokens of their lines
RootDeleteLines ==
    { <<"rm", "-r", "/">>, <<"rm", "-rf", "/">>, <<"rm", "-r", "/*">>,
      <<"rm", "-rf", "/*">>, <<"rm", "-r", "/", "*">>, <<"rm", "-rf", "/", "*">>,
      <<"rm", "-rf", "/bin">>, <<"rm", "-rf", "/usr">>, <<"rm", "-rf", "/etc">> }

\* lines: root deletes and others, with and without a trailing comment, and
\* lines that are a comment as a whole
AnalyzerLines ==
    LET plain == RootDeleteLines \cup { <<"echo", "test">>, <<"rm", "-rf", "build">>,
                                        <<"rm", "/">>, <<"ls", "/">> }
    IN  plain \cup { l \o <<"#", "comment">> : l \in plain }
              \cup { <<"#">> \o l : l \in plain } \cup { <<>> }

\* the matchers run on every non-empty, non-comment line
AnalyzeLine(line, policies) ==
    IF line = <<>> \/ line[1] = "#" THEN <<>> ELSE AnalyzeScript(line, policies)

InitAnalyze ==
    /\ cfg \in ExecConfigs
    /\ env = ""
    /\ trustStore = {}
    /\ files = <<>>
    /\ pc = "a_idle"
    /\ cmdArgs = <<>>
    /\ interactive = FALSE
    /\ flagSession = ""
    /\ sessionID = ""
    /\ findings = <<>>
    /\ riskLevel = "low"
    /\ findingCodes = <<>>
    /\ response = None
    /\ children = <<>>
    /\ childExit = 0
    /\ sess = Absent
    /\ ledgerErr = ""
    /\ osExit = 0
    /\ files0 = <<>>
    /\ decision = NoDecision
    /\ NoClients
    /\ NoOthers

\* vectra-guard validate on a script of one line
Validate(line) ==
    /\ pc = "a_idle"
    /\ cmdArgs' = line
    /\ findings' = AnalyzeLine(line, cfg)
    /\ riskLevel' = RiskLevelOf(findings')
    /\ findingCodes' = FindingCodesOf(findings')
    /\ pc' = "a_done"
    /\ UNCHANGED <<ledgerVars, otherVars>>
    /\ UNCHANGED <<cfg, env, trustStore, files, interactive, flagSession, sessionID,
                   response, children, childExit, sess, ledgerErr, osExit, files0, decision>>

NextAnalyze == \E line \in AnalyzerLines : Validate(line)

SpecAnalyze == InitAnalyze /\ [][NextAnalyze]_vars

(***************************************************************************)
(* Manager.Start, Load and List on a sessions directory                    *)
(***************************************************************************)
\* the exec pipeline is not looked at
NoExec ==
    /\ cfg = [enabled |-> TRUE, mode |-> "auto", enableCache |-> TRUE,
              allowlist |-> {}, denylist |-> {}]
    /\ env = ""
    /\ trustStore = {}
    /\ pc = "off"
    /\ cmdArgs = <<>>
    /\ interactive = FALSE
    /\ flagSession = ""
    /\ sessionID = ""
    /\ findings = <<>>
    /\ riskLevel = "low"
    /\ findingCodes = <<>>
    /\ response = None
    /\ children = <<>>
    /\ childExit = 0
    /\ sess = Absent
    /\ ledgerErr = ""
    /\ osExit = 0
    /\ files0 = <<>>
    /\ decision = NoDecision

\* fmt.Sprintf("session-%d", time.Now().UnixNano()): the prefix and the
\* clock value, nothing else
generateSessionID(now) == <<"session", now>>

StartIds == { generateSessionID(t) : t \in 0..MaxClock }

StartAgents == {"a1", "a2"}

\* a directory entry <id>.json that is a directory
Directory == [kind |-> "dir"]

\* the Session Manager.Start builds
NewSession(id, agent, now) ==
    [kind |-> "session", id |-> id, agentName |-> agent, startTime |-> now,
     commands |-> <<>>, fileOps |-> <<>>, riskScore |-> 0, violations |-> 0,
     ended |-> FALSE]

\* Manager.Load on the file of an id: os.ReadFile, then json.Unmarshal
Load(f) ==
    IF f.kind \in {"absent", "dir"} THEN [err |-> "read session", session |-> Absent]
    ELSE IF f.kind = "malformed" THEN [err |-> "parse session", session |-> Absent]
    ELSE [err |-> "", session |-> f]

\* variant: a file that does not load ends the listing with its error
List_FailFast(fs, readable) ==
    IF ~readable THEN [err |-> "read session directory", ok |-> {}, skipped |-> {}]
    ELSE LET entries == {id \in DOMAIN fs : fs[id].kind # "absent"}
             named   == {id \in entries : fs[id].kind # "dir"}
             bad     == {id \in named : Load(fs[id]).err # ""}
         IN  IF bad # {} THEN [err |-> "parse session", ok |-> {}, skipped |-> bad]
             ELSE [err |-> "", ok |-> named, skipped |-> {}]

\* Manager.List: os.ReadDir, directories passed over, Load of every entry,
\* the entries that do not load warned about and passed over
ListOf(fs, readable) ==
    IF ~readable THEN [err |-> "read session directory", ok |-> {}, skipped |-> {}]
    ELSE LET entries == {id \in DOMAIN fs : fs[id].kind # "absent"}
             named   == {id \in entries : fs[id].kind # "dir"}
             bad     == {id \in named : Load(fs[id]).err # ""}
         IN  [err |-> "", ok |-> named \ bad, skipped |-> bad]

InitStart ==
    /\ NoExec
    /\ mpc = <<>>
    /\ mem = <<>>
    /\ merr = <<>>
    /\ upd = <<>>
    /\ acked = <<>>
    /\ ops = 0
    /\ listed = [err |-> "", ok |-> {}, skipped |-> {}]
    /\ files \in { f \in [StartIds -> {Absent, Malformed, Directory,
                                        NewSession(generateSessionID(0), "a0", 0)}] :
                      \A t \in 1..MaxClock :
                          /\ ~IsSession(f[generateSessionID(t)])
                          /\ t > 1 => f[generateSessionID(t)] = Absent }
    /\ clock = 1
    /\ started = <<>>
    /\ loadRes = [id |-> generateSessionID(0), err |-> "none"]
    /\ dirOk \in BOOLEAN
    /\ NoStartRest

\* the clock moves on
Tick ==
    /\ clock < MaxClock
    /\ clock' = clock + 1
    /\ UNCHANGED <<execVars, files, ledgerVars, started, loadRes, dirOk, startRest>>

\* Manager.Start: the id from the clock, then save
Start(agent) ==
    /\ Len(started) < MaxStarts
    /\ LET id == generateSessionID(clock)
           new == NewSession(id, agent, clock)
       IN  \E r \in SaveResults(files[id], new) :
              /\ files' = [files EXCEPT ![id] = r.file]
              /\ started' = IF r.ok THEN Append(started, new) ELSE started
    /\ UNCHANGED <<execVars, ledgerVars, clock, loadRes, dirOk, startRest>>

\* Manager.Load of an id
LoadId(id) ==
    /\ loadRes' = [id |-> id, err |-> Load(files[id]).err]
    /\ loadRes' # loadRes
    /\ UNCHANGED <<execVars, files, ledgerVars, clock, started, dirOk, startRest>>

\* Manager.List
ListDir ==
    /\ listed' = ListOf(files, dirOk)
    /\ listed' # listed
    /\ UNCHANGED <<execVars, files, mpc, mem, merr, upd, acked, ops, startVars, startRest>>

NextStart ==
    \/ Tick
    \/ \E agent \in StartAgents : Start(agent)
    \/ \E id \in StartIds : LoadId(id)
    \/ ListDir

SpecStart == InitStart /\ [][NextStart]_vars

(***************************************************************************)
(* internal/daemon: Daemon.Start in the processes launched on a workspace  *)
(***************************************************************************)
Daemons == {"d1", "d2"}

\* the cases of the select Start waits in
Triggers == {"ctx", "signal", "stop"}

\* variant: the lockfile is opened without O_EXCL
acquireLock_NoExcl(exists) == [ok |-> TRUE, exists |-> TRUE]

\* os.OpenFile(d.lockFile, O_CREATE|O_EXCL|O_WRONLY): fails when the file is there
acquireLock(exists) ==
    IF exists THEN [ok |-> FALSE, exists |-> TRUE]
    ELSE [ok |-> TRUE, exists |-> TRUE]

\* the pids of the daemon processes that are alive
AlivePids == { dpid[p] : p \in {q \in Daemons : dpc[q] # "off"} }

\* isRunning: the PID file is read and parsed, the process is signalled
isRunning(pf, alive) == pf > 0 /\ pf \in alive

DaemonIds == { generateSessionID(t) : t \in 0..(MaxRuns - 1) }

InitDaemon ==
    /\ NoExec
    /\ NoClients
    /\ NoStarts
    /\ files = [id \in DaemonIds |-> Absent]
    /\ lockFile = FALSE
    /\ pidFile = 0
    /\ dpc = [p \in Daemons |-> "off"]
    /\ dpid = [p \in Daemons |-> 0]
    /\ dret = [p \in Daemons |-> ""]
    /\ dsess = [p \in Daemons |-> Absent]
    /\ dtrigger = [p \in Daemons |-> None]
    /\ dendErr = [p \in Daemons |-> ""]
    /\ runs = 0
    /\ NoDaemonRest

daemonIdle == <<execVars, ledgerVars, loadRes, dirOk, started, daemonRest>>

\* a process is launched, daemon.New builds its Daemon and Start is called
Launch(p) ==
    /\ dpc[p] = "off"
    /\ runs < MaxRuns
    /\ runs' = runs + 1
    /\ dpid' = [dpid EXCEPT ![p] = runs + 1]
    /\ dpc' = [dpc EXCEPT ![p] = "check"]
    /\ dret' = [dret EXCEPT ![p] = ""]
    /\ dsess' = [dsess EXCEPT ![p] = Absent]
    /\ dtrigger' = [dtrigger EXCEPT ![p] = None]
    /\ dendErr' = [dendErr EXCEPT ![p] = ""]
    /\ UNCHANGED <<daemonIdle, files, clock, lockFile, pidFile>>

\* Start: if d.isRunning() return the error
CheckRunning(p) ==
    /\ dpc[p] = "check"
    /\ IF isRunning(pidFile, AlivePids \ {dpid[p]})
       THEN /\ dret' = [dret EXCEPT ![p] = "daemon already running"]
            /\ dpc' = [dpc EXCEPT ![p] = "off"]
       ELSE /\ dpc' = [dpc EXCEPT ![p] = "lock"]
            /\ dret' = dret
    /\ UNCHANGED <<daemonIdle, files, clock, lockFile, pidFile, dpid, dsess, dtrigger,
                   dendErr, runs>>

\* Start: d.acquireLock(), and on success defer d.releaseLock()
AcquireLock(p) ==
    /\ dpc[p] = "lock"
    /\ LET r == acquireLock(lockFile)
       IN  /\ lockFile' = r.exists
           /\ IF r.ok
              THEN /\ dpc' = [dpc EXCEPT ![p] = "pid"]
                   /\ dret' = dret
              ELSE /\ dpc' = [dpc EXCEPT ![p] = "off"]
                   /\ dret' = [dret EXCEPT ![p] = "acquire lock"]
    /\ UNCHANGED <<daemonIdle, files, clock, pidFile, dpid, dsess, dtrigger, dendErr, runs>>

\* Start: d.writePIDFile(), and on success defer d.removePIDFile(); a failed
\* os.WriteFile leaves the file as it was or without its content
WritePIDFile(p, ok) ==
    /\ dpc[p] = "pid"
    /\ IF ok
       THEN /\ pidFile' = dpid[p]
            /\ dpc' = [dpc EXCEPT ![p] = "session"]
            /\ dret' = dret
       ELSE /\ pidFile' \in {pidFile, -1}
            /\ dpc' = [dpc EXCEPT ![p] = "release"]
            /\ dret' = [dret EXCEPT ![p] = "write pid file"]
    /\ UNCHANGED <<daemonIdle, files, clock, lockFile, dpid, dsess, dtrigger, dendErr, runs>>

\* Start: d.sessionMgr.Start, d.session = sess, the goroutines, the select
StartSession(p) ==
    /\ dpc[p] = "session"
    /\ LET id == generateSessionID(clock)
           new == NewSession(id, p, clock)
       IN  \E r \in SaveResults(files[id], new) :
              /\ files' = [files EXCEPT ![id] = r.file]
              /\ IF r.ok
                 THEN /\ dsess' = [dsess EXCEPT ![p] = new]
                      /\ dpc' = [dpc EXCEPT ![p] = "run"]
                      /\ dret' = dret
                 ELSE /\ dsess' = dsess
                      /\ dpc' = [dpc EXCEPT ![p] = "rmpid"]
                      /\ dret' = [dret EXCEPT ![p] = "start session"]
    /\ clock' = clock + 1
    /\ UNCHANGED <<daemonIdle, lockFile, pidFile, dpid, dtrigger, dendErr, runs>>

\* Start: a case of the select is taken
Trigger(p, t) ==
    /\ dpc[p] = "run"
    /\ dtrigger' = [dtrigger EXCEPT ![p] = t]
    /\ dpc' = [dpc EXCEPT ![p] = "end"]
    /\ UNCHANGED <<daemonIdle, files, clock, lockFile, pidFile, dpid, dret, dsess,
                   dendErr, runs>>

\* Start: d.sessionMgr.End(d.session), its error logged; return nil is under way
EndSession(p) ==
    /\ dpc[p] = "end"
    /\ LET s == End(dsess[p])
       IN  \E r \in SaveResults(files[s.id], s) :
              /\ files' = [files EXCEPT ![s.id] = r.file]
              /\ dsess' = [dsess EXCEPT ![p] = s]
              /\ dendErr' = [dendErr EXCEPT ![p] = IF r.ok THEN "" ELSE "write session"]
    /\ dret' = [dret EXCEPT ![p] = "nil"]
    /\ dpc' = [dpc EXCEPT ![p] = "rmpid"]
    /\ UNCHANGED <<daemonIdle, clock, lockFile, pidFile, dpid, dtrigger, runs>>

\* the deferred d.removePIDFile()
RemovePIDFile(p) ==
    /\ dpc[p] = "rmpid"
    /\ pidFile' = 0
    /\ dpc' = [dpc EXCEPT ![p] = "release"]
    /\ UNCHANGED <<daemonIdle, files, clock, lockFile, dpid, dret, dsess, dtrigger,
                   dendErr, runs>>

\* the deferred d.releaseLock(); Start has returned
ReleaseLock(p) ==
    /\ dpc[p] = "release"
    /\ lockFile' = FALSE
    /\ dpc' = [dpc EXCEPT ![p] = "off"]
    /\ UNCHANGED <<daemonIdle, files, clock, pidFile, dpid, dret, dsess, dtrigger,
                   dendErr, runs>>

\* the process ends without running its deferred calls: SIGKILL, a panic in
\* another goroutine, os.Exit, power loss
Crash(p) ==
    /\ dpc[p] # "off"
    /\ dpc' = [dpc EXCEPT ![p] = "off"]
    /\ dret' = [dret EXCEPT ![p] = "killed"]
    /\ UNCHANGED <<daemonIdle, files, clock, lockFile, pidFile, dpid, dsess, dtrigger,
                   dendErr, runs>>

NextDaemon ==
    \/ \E p \in Daemons : Launch(p)
    \/ \E p \in Daemons : CheckRunning(p)
    \/ \E p \in Daemons : AcquireLock(p)
    \/ \E p \in Daemons, ok \in BOOLEAN : WritePIDFile(p, ok)
    \/ \E p \in Daemons : StartSession(p)
    \/ \E p \in Daemons, t \in Triggers : Trigger(p, t)
    \/ \E p \in Daemons : EndSession(p)
    \/ \E p \in Daemons : RemovePIDFile(p)
    \/ \E p \in Daemons : ReleaseLock(p)
    \/ \E p \in Daemons : Crash(p)

SpecDaemon == InitDaemon /\ [][NextDaemon]_vars

(***************************************************************************)
(* internal/daemon: InterceptCommand and processCommands of one Daemon     *)
(***************************************************************************)
Callers == 1..MaxCalls

\* a call that was not made yet; reply is the content of its approved channel
NoCall == [pc |-> "idle", reply |-> None, result |-> None, elapsed |-> 0,
           timer |-> 0, afterStop |-> FALSE]

InitIntercept ==
    /\ NoExec
    /\ NoClients
    /\ NoStarts
    /\ NoDaemons
    /\ files = <<>>
    /\ active = FALSE
    /\ interceptCh = <<>>
    /\ processor = None
    /\ stopped = None
    /\ stopCh = "open"
    /\ calls = [c \in Callers |-> NoCall]
    /\ NoInterceptRest

interceptIdle == <<execVars, files, ledgerVars, startVars, daemonVars, interceptRest>>

\* the daemon process runs: no goroutine of it has panicked
Alive == stopCh # "panic"

\* Start: d.session = sess, go d.processCommands(ctx)
DaemonStarted ==
    /\ Alive
    /\ ~active
    /\ active' = TRUE
    /\ processor' = "running"
    /\ UNCHANGED <<interceptIdle, interceptCh, stopped, stopCh, calls>>

\* close(ch): a close of a closed channel panics
close(ch) == IF ch = "open" THEN "closed" ELSE "panic"

\* Stop: close(d.stopCh), by any goroutine and at any time
Stop ==
    /\ Alive
    /\ stopCh' = close(stopCh)
    /\ UNCHANGED <<interceptIdle, active, interceptCh, processor, stopped, calls>>

\* Start: a case of its select is taken; d.stopCh is closed, the context
\* is cancelled, or a signal arrives on sigCh
StopTrigger(t) ==
    /\ Alive
    /\ active
    /\ stopped = None
    /\ t = "stop" => stopCh = "closed"
    /\ stopped' = t
    /\ UNCHANGED <<interceptIdle, active, interceptCh, processor, stopCh, calls>>

\* processCommands: case <-ctx.Done() or case <-d.stopCh, return
ProcessorExit ==
    /\ Alive
    /\ processor = "running"
    /\ stopped = "ctx" \/ stopCh = "closed"
    /\ processor' = "exited"
    /\ UNCHANGED <<interceptIdle, active, interceptCh, stopped, stopCh, calls>>

\* variant: the reply channel has no buffer and the send no default case
sendApproval_Unbuffered(reply, listening) ==
    [done |-> listening, reply |-> IF listening THEN "true" ELSE reply]

\* processCommands: select { case cmd.Approved <- true: default: } on the
\* channel of one place; done: the step completes without waiting
sendApproval(reply, listening) ==
    [done |-> TRUE, reply |-> IF reply = None THEN "true" ELSE reply]

\* processCommands: case cmd := <-d.interceptCh, then the approval is sent on
\* cmd.Approved
ProcessCommand ==
    /\ Alive
    /\ processor = "running"
    /\ interceptCh # <<>>
    /\ LET c == Head(interceptCh)
           sent == sendApproval(calls[c].reply, calls[c].pc = "wait")
       IN  /\ sent.done
           /\ calls' = [calls EXCEPT ![c].reply = sent.reply]
    /\ interceptCh' = Tail(interceptCh)
    /\ UNCHANGED <<interceptIdle, active, processor, stopped, stopCh>>

\* variant: a Command is queued whether there is a session or not
InterceptCommand_AlwaysQueued(call, hasSession, afterStop) ==
    [call EXCEPT !.pc = "send", !.afterStop = afterStop]

\* InterceptCommand up to the send: return true when d.session is nil
InterceptCommand(call, hasSession, afterStop) ==
    IF hasSession
    THEN [call EXCEPT !.pc = "send", !.afterStop = afterStop]
    ELSE [call EXCEPT !.pc = "done", !.result = "true"]

\* InterceptCommand is entered
CallIntercept(c) ==
    /\ Alive
    /\ calls[c].pc = "idle"
    /\ \A b \in Callers : b < c => calls[b].pc # "idle"
    /\ calls' = [calls EXCEPT ![c] = InterceptCommand(@, active, stopped # None)]
    /\ UNCHANGED <<interceptIdle, active, interceptCh, processor, stopped, stopCh>>

\* InterceptCommand: d.interceptCh <- Command{...}, which waits while the
\* channel is full
SendCommand(c) ==
    /\ Alive
    /\ calls[c].pc = "send"
    /\ Len(interceptCh) < QueueCap
    /\ interceptCh' = Append(interceptCh, c)
    /\ calls' = [calls EXCEPT ![c].pc = "wait"]
    /\ UNCHANGED <<interceptIdle, active, processor, stopped, stopCh>>

\* InterceptCommand: case result := <-approved
ReceiveApproval(c) ==
    /\ Alive
    /\ calls[c].pc = "wait"
    /\ calls[c].reply # None
    /\ calls' = [calls EXCEPT ![c].pc = "done", ![c].result = calls[c].reply,
                              ![c].reply = None]
    /\ UNCHANGED <<interceptIdle, active, interceptCh, processor, stopped, stopCh>>

\* InterceptCommand: case <-time.After(5 * time.Second), return false
ApprovalTimedOut(c) ==
    /\ Alive
    /\ calls[c].pc = "wait"
    /\ calls[c].timer >= ApprovalTimeout
    /\ calls' = [calls EXCEPT ![c].pc = "done", ![c].result = "false"]
    /\ UNCHANGED <<interceptIdle, active, interceptCh, processor, stopped, stopCh>>

\* a second passes: no call waits while its send or its receive can go on,
\* and none stays in its select past the timeout; the time of a call is
\* counted up to one past the timeout
SecondPasses ==
    /\ Alive
    /\ \E c \in Callers : calls[c].pc \in {"send", "wait"}
                           /\ calls[c].elapsed <= ApprovalTimeout
    /\ \A c \in Callers : calls[c].pc = "send" => Len(interceptCh) >= QueueCap
    /\ \A c \in Callers : calls[c].pc = "wait" =>
                               (calls[c].timer < ApprovalTimeout /\ calls[c].reply = None)
    /\ calls' = [c \in Callers |->
                    IF calls[c].pc = "send"
                    THEN [calls[c] EXCEPT !.elapsed = IF @ <= ApprovalTimeout THEN @ + 1 ELSE @]
                    ELSE IF calls[c].pc = "wait"
                    THEN [calls[c] EXCEPT !.elapsed = IF @ <= ApprovalTimeout THEN @ + 1 ELSE @,
                                          !.timer = @ + 1]
                    ELSE calls[c]]
    /\ UNCHANGED <<interceptIdle, active, interceptCh, processor, stopped, stopCh>>

NextIntercept ==
    \/ DaemonStarted
    \/ Stop
    \/ \E t \in Triggers : StopTrigger(t)
    \/ ProcessorExit
    \/ ProcessCommand
    \/ \E c \in Callers : CallIntercept(c)
    \/ \E c \in Callers : SendCommand(c)
    \/ \E c \in Callers : ReceiveApproval(c)
    \/ \E c \in Callers : ApprovalTimedOut(c)
    \/ SecondPasses

SpecIntercept == InitIntercept /\ [][NextIntercept]_vars

(***************************************************************************)
(* The Trust Store: fingerprints, expiry and the store file                *)
(***************************************************************************)
\* command vectors, every argument a sequence of characters
TrustVectors ==
    { << <<"l", "s">> >>,
      << <<"L", "S">> >>,
      << <<"l", "s">>, <<"a">> >>,
      << <<"l", "s", " ", " ", "a">> >> }

lower(ch) == IF ch = "L" THEN "l" ELSE IF ch = "S" THEN "s" ELSE ch

RECURSIVE JoinArgs(_)
\* the arguments joined by single spaces
JoinArgs(argv) ==
    IF Len(argv) = 0 THEN <<>>
    ELSE IF Len(argv) = 1 THEN argv[1]
    ELSE argv[1] \o <<" ">> \o JoinArgs(Tail(argv))

RECURSIVE CollapseSpaces(_)
\* a run of spaces becomes one space
CollapseSpaces(chars) ==
    IF Len(chars) < 2 THEN chars
    ELSE IF chars[1] = " " /\ chars[2] = " " THEN CollapseSpaces(Tail(chars))
    ELSE <<chars[1]>> \o CollapseSpaces(Tail(chars))

\* the canonical form: lowercased argv joined by single spaces, whitespace
\* collapsed
CanonicalForm(argv) ==
    LET joined == JoinArgs(argv)
    IN  CollapseSpaces([i \in 1..Len(joined) |-> lower(joined[i])])

\* SHA-256 of the canonical form, taken to be free of collisions
Fingerprint(argv) == <<"sha256", CanonicalForm(argv)>>

Fingerprints == { Fingerprint(v) : v \in TrustVectors }

\* durations of an add; 0 when none is given
Durations == {0, 1, 2}

NoEntry == [kind |-> "absent"]

TrustEntry(fp, now, duration) ==
    [kind |-> "entry", fp |-> fp, note |-> "n", addedAt |-> now,
     expiresAt |-> IF duration = 0 THEN 0 ELSE now + duration, useCount |-> 0]

EmptyStore == [f \in Fingerprints |-> NoEntry]

\* an entry that is not expired at now
Live(e, now) == e.kind = "entry" /\ (e.expiresAt = 0 \/ now < e.expiresAt)

\* variant: an entry is returned up to and at its expiresAt
lookup_Inclusive(m, argv, now) ==
    LET e == m[Fingerprint(argv)]
    IN  IF e.kind = "entry" /\ (e.expiresAt = 0 \/ now <= e.expiresAt) THEN e ELSE NoEntry

\* lookup: the entry of the fingerprint if present and expiresAt is unset or
\* now() < expiresAt
lookup(m, argv, now) ==
    LET e == m[Fingerprint(argv)]
    IN  IF Live(e, now) THEN e ELSE NoEntry

\* add: inserts or replaces
add(m, argv, now, duration) ==
    [m EXCEPT ![Fingerprint(argv)] = TrustEntry(Fingerprint(argv), now, duration)]

\* remove: deletes if present
remove(m, argv) == [m EXCEPT ![Fingerprint(argv)] = NoEntry]

\* cleanExpired: removes all entries with expiresAt <= now()
cleanExpired(m, now) ==
    [f \in DOMAIN m |->
        IF m[f].kind = "entry" /\ m[f].expiresAt # 0 /\ m[f].expiresAt <= now
        THEN NoEntry ELSE m[f]]

RECURSIVE ByAddedAt(_)
\* the entries of a set in a sequence, addedAt ascending
ByAddedAt(es) ==
    IF es = {} THEN <<>>
    ELSE LET first == CHOOSE e \in es : \A o \in es : e.addedAt <= o.addedAt
         IN  <<first>> \o ByAddedAt(es \ {first})

\* variant: list returns the expired entries too
list_Unfiltered(m, now) ==
    ByAddedAt({ m[f] : f \in {g \in DOMAIN m : m[g].kind = "entry"} })

\* list: the entries sorted by addedAt ascending; an entry whose expiresAt
\* has passed is treated as absent
list(m, now) ==
    ByAddedAt({ m[f] : f \in {g \in DOMAIN m : Live(m[g], now)} })

\* the full store as it is serialised: the array of its entries
Serialize(m) ==
    [kind |-> "store",
     entries |-> { m[f] : f \in {g \in DOMAIN m : m[g].kind = "entry"} }]

\* the store read from the file; a missing or malformed file is an empty store
Parse(file) ==
    IF file.kind # "store" THEN EmptyStore
    ELSE [f \in Fingerprints |->
             IF \E e \in file.entries : e.fp = f
             THEN CHOOSE e \in file.entries : e.fp = f
             ELSE NoEntry]

\* no lookup was just made
NoLookup == [cmd |-> <<>>, entry |-> NoEntry]

InitTrust ==
    /\ NoExec
    /\ NoClients
    /\ NoStarts
    /\ NoDaemons
    /\ NoIntercepts
    /\ files = <<>>
    /\ tfile \in {Absent, Malformed}
    /\ tmem = EmptyStore
    /\ tnow = 1
    /\ tloaded = "fresh"
    /\ tres = NoLookup
    /\ tlist = <<>>
    /\ tlast = [op |-> None, ok |-> TRUE]
    /\ NoTrustRest

trustIdle == <<execVars, files, ledgerVars, startVars, daemonVars, interceptVars, trustRest>>

\* a mutation: the full store is written to a temporary file that is renamed
\* over trust.json; when that fails the mutation fails and the file is as before
Mutate(op, m, ok) ==
    /\ tlast' = [op |-> op, ok |-> ok]
    /\ tres' = NoLookup
    /\ tlist' = <<>>
    /\ IF ok
       THEN tmem' = m /\ tfile' = Serialize(m)
       ELSE tmem' = tmem /\ tfile' = tfile

TrustTick ==
    /\ tnow < MaxNow
    /\ tnow' = tnow + 1
    /\ tlast' = [op |-> "tick", ok |-> TRUE]
    /\ tres' = NoLookup
    /\ tlist' = <<>>
    /\ UNCHANGED <<trustIdle, tmem, tfile, tloaded>>

TrustAdd(argv, duration, ok) ==
    /\ Mutate("add", add(tmem, argv, tnow, duration), ok)
    /\ UNCHANGED <<trustIdle, tnow, tloaded>>

TrustRemove(argv, ok) ==
    /\ tmem[Fingerprint(argv)].kind = "entry"
    /\ Mutate("remove", remove(tmem, argv), ok)
    /\ UNCHANGED <<trustIdle, tnow, tloaded>>

TrustClean(ok) ==
    /\ Mutate("clean", cleanExpired(tmem, tnow), ok)
    /\ UNCHANGED <<trustIdle, tnow, tloaded>>

TrustLookup(argv) ==
    /\ tres' = [cmd |-> argv, entry |-> lookup(tmem, argv, tnow)]
    /\ tlast' = [op |-> "lookup", ok |-> TRUE]
    /\ tlist' = <<>>
    /\ UNCHANGED <<trustIdle, tmem, tfile, tnow, tloaded>>

TrustList ==
    /\ tlist' = list(tmem, tnow)
    /\ tlast' = [op |-> "list", ok |-> TRUE]
    /\ tres' = NoLookup
    /\ UNCHANGED <<trustIdle, tmem, tfile, tnow, tloaded>>

\* the process ends and a new one reads trust.json; when reading fails the
\* store is empty
TrustRestart(readOk) ==
    /\ tlast.op # None
    /\ tmem' = IF readOk THEN Parse(tfile) ELSE EmptyStore
    /\ tloaded' = IF readOk THEN "ok" ELSE "error"
    /\ tlast' = [op |-> "restart", ok |-> readOk]
    /\ tres' = NoLookup
    /\ tlist' = <<>>
    /\ UNCHANGED <<trustIdle, tfile, tnow>>

NextTrust ==
    \/ TrustTick
    \/ \E argv \in TrustVectors, d \in Durations, ok \in BOOLEAN : TrustAdd(argv, d, ok)
    \/ \E argv \in TrustVectors, ok \in BOOLEAN : TrustRemove(argv, ok)
    \/ \E ok \in BOOLEAN : TrustClean(ok)
    \/ \E argv \in TrustVectors : TrustLookup(argv)
    \/ TrustList
    \/ \E readOk \in BOOLEAN : TrustRestart(readOk)

SpecTrust == InitTrust /\ [][NextTrust]_vars

(***************************************************************************)
(* The Sandbox Executor: the argument list of docker or podman             *)
(***************************************************************************)
SecurityLevels == {"permissive", "balanced", "strict", "paranoid"}

\* the capabilities, in sorted order
CapNames == <<"ALL", "CHOWN", "NET_RAW", "SYS_ADMIN", "SYS_PTRACE">>

\* the security posture of a level
Posture(level) ==
    IF level = "permissive"
    THEN [networkMode |-> "full", readOnlyRoot |-> FALSE, capDrop |-> {},
          memoryLimit |-> "2g", cpuLimit |-> "2.0", pidsLimit |-> "1024",
          noNewPrivileges |-> FALSE]
    ELSE IF level = "balanced"
    THEN [networkMode |-> "restricted", readOnlyRoot |-> FALSE,
          capDrop |-> {"SYS_ADMIN", "NET_RAW"},
          memoryLimit |-> "1g", cpuLimit |-> "1.0", pidsLimit |-> "512",
          noNewPrivileges |-> TRUE]
    ELSE IF level = "strict"
    THEN [networkMode |-> "restricted", readOnlyRoot |-> TRUE,
          capDrop |-> {"SYS_PTRACE", "SYS_ADMIN", "NET_RAW"},
          memoryLimit |-> "512m", cpuLimit |-> "0.5", pidsLimit |-> "256",
          noNewPrivileges |-> TRUE]
    ELSE [networkMode |-> "none", readOnlyRoot |-> TRUE, capDrop |-> {"ALL"},
          memoryLimit |-> "256m", cpuLimit |-> "0.25", pidsLimit |-> "64",
          noNewPrivileges |-> TRUE]

Image == "ubuntu:22.04"

Workspace == "/test"

\* --network: none to none, restricted to bridge, full to host
NetworkArg(mode) ==
    IF mode = "none" THEN "none" ELSE IF mode = "restricted" THEN "bridge" ELSE "host"

RECURSIVE Flatten(_)
Flatten(seqs) == IF seqs = <<>> THEN <<>> ELSE Head(seqs) \o Flatten(Tail(seqs))

\* the package managers of the cache mounts, in the order of the table
CacheMounts ==
    << [manager |-> "npm", mount |-> "~/.npm:/root/.npm:rw"],
       [manager |-> "pip", mount |-> "~/.cache/pip:/root/.cache/pip:rw"] >>

\* what precedes the image name, in the order of the construction
DockerOptions(c, args) ==
    <<"run", "--rm", "-i">>
    \o (IF c.tty THEN <<"-t">> ELSE <<>>)
    \o <<"--network", NetworkArg(c.posture.networkMode)>>
    \o (IF c.posture.readOnlyRoot THEN <<"--read-only">> ELSE <<>>)
    \o (IF c.posture.noNewPrivileges THEN <<"--security-opt", "no-new-privileges">> ELSE <<>>)
    \o Flatten([i \in 1..Len(CapNames) |->
                   IF CapNames[i] \in c.posture.capDrop
                   THEN <<"--cap-drop", CapNames[i]>> ELSE <<>>])
    \o <<"--memory", c.posture.memoryLimit, "--cpus", c.posture.cpuLimit,
         "--pids-limit", c.posture.pidsLimit>>
    \o (IF c.seccompProfile # "" THEN <<"--seccomp", c.seccompProfile>> ELSE <<>>)
    \o Flatten([i \in 1..Len(c.envSet) |-> <<"-e", c.envSet[i]>>])
    \o <<"-v", "/test:/test:rw", "-w", c.workDir>>
    \o Flatten([i \in 1..Len(c.bindMounts) |-> <<"-v", c.bindMounts[i]>>])
    \o Flatten([i \in 1..Len(CacheMounts) |->
                   IF c.enableCache /\ Len(args) > 0 /\ args[1] = CacheMounts[i].manager
                   THEN <<"-v", CacheMounts[i].mount>> ELSE <<>>])

\* variant: the command tokens come before the image name
buildDockerArgs_ImageLast(c, args) == DockerOptions(c, args) \o args \o <<c.image>>

\* the argument list: the options, the image name, the command tokens verbatim
buildDockerArgs(c, args) == DockerOptions(c, args) \o <<c.image>> \o args

SandboxTokens == {"echo", "npm", "--rm", Image}

SandboxConfigs ==
    [level : SecurityLevels, posture : {Posture(l) : l \in SecurityLevels},
     runtime : {"docker", "podman"}, image : {Image}, workDir : {Workspace},
     tty : BOOLEAN, seccompProfile : {"", "seccomp.json"},
     envSet : {<<>>, <<"HOME=/home/u">>},
     bindMounts : {<<>>, <<"/data:/data:ro">>},
     enableCache : BOOLEAN]

InitDocker ==
    /\ NoExec
    /\ NoClients
    /\ NoStarts
    /\ NoDaemons
    /\ NoIntercepts
    /\ NoTrust
    /\ files = <<>>
    /\ sandboxCfg \in {c \in SandboxConfigs : c.posture = Posture(c.level)}
    /\ sandboxCmd \in SeqsUpTo(SandboxTokens, MaxArgs)
    /\ dockerArgs = <<>>

\* Executor.buildDockerArgs(sandboxCfg, cmdArgs)
BuildDockerArgs ==
    /\ dockerArgs = <<>>
    /\ dockerArgs' = buildDockerArgs(sandboxCfg, sandboxCmd)
    /\ UNCHANGED <<execVars, files, ledgerVars, startVars, daemonVars, interceptVars,
                   trustVars, sandboxCfg, sandboxCmd>>

NextDocker == BuildDockerArgs

SpecDocker == InitDocker /\ [][NextDocker]_vars

(***************************************************************************)
(* Properties of the execution decision (SpecDecide)                       *)
(***************************************************************************)

\* C1: a command with a finding whose code is in MandatorySandboxCodes is
\* decided mode = sandbox with mandatory = true, whatever Sandbox.Enabled,
\* Mode, the allowlist and the Trust Store are.
C1_MandatoryCodeForcesSandbox ==
    (pc = "d_done" /\ HasMandatoryCode(findings))
        => (decision.mode = "sandbox" /\ decision.mandatory)

HighMandatoryCodes == {"DANGEROUS_DELETE_HOME", "SENSITIVE_ENV_ACCESS", "DOTENV_FILE_READ"}

\* C4: the mandatory rule looks at the codes, not at the risk level: a command
\* whose risk level is high and that has a DANGEROUS_DELETE_HOME,
\* SENSITIVE_ENV_ACCESS or DOTENV_FILE_READ finding is decided mode = sandbox
\* with mandatory = true, also under Mode = never and with an allowlist match.
C4_HighRiskMandatoryCode ==
    (/\ pc = "d_done"
     /\ riskLevel = "high"
     /\ \E i \in 1..Len(findings) : findings[i].code \in HighMandatoryCodes)
        => (decision.mode = "sandbox" /\ decision.mandatory)

Allowlisted == cmdArgs[1] \in cfg.allowlist

NetworkedInstall ==
    /\ cmdArgs[1] \in {"npm", "yarn", "pnpm", "pip", "pip3", "cargo", "go", "gem",
                        "apt", "apt-get", "brew"}
    /\ \E i \in 2..Len(cmdArgs) : cmdArgs[i] \in {"install", "get", "add", "i"}

LowLocal == riskLevel = "low" /\ ~NetworkedInstall

MediumUp == riskLevel \in {"medium", "high", "critical"}

HostFor(why) == decision.mode = "host" /\ decision.reason = why

SandboxFor(why) == decision.mode = "sandbox" /\ decision.reason = why

C13_AllowlistedOnHost ==
    (/\ pc = "d_done"
     /\ Allowlisted
     /\ ~HasMandatoryCode(findings)
     /\ cfg.mode \in {"auto", "risky"})
        => decision.mode = "host"

C13_Witness ==
    /\ pc = "d_done" /\ cfg.enabled /\ cfg.mode = "auto"
    /\ cmdArgs = <<"sudo", "ls">> /\ Allowlisted
    /\ riskLevel = "medium" /\ Len(findings) = 2
    /\ decision.mode = "host"

\* C14: with Sandbox.Enabled and Mode always every command is decided
\* mode = sandbox, a low-risk command and an allowlisted command too.
C14_AlwaysModeSandboxes ==
    (pc = "d_done" /\ cfg.enabled /\ cfg.mode = "always") => decision.mode = "sandbox"

C14_Witness ==
    /\ pc = "d_done" /\ cfg.enabled /\ cfg.mode = "always"
    /\ cmdArgs = <<"echo", "test">> /\ Allowlisted /\ riskLevel = "low"
    /\ decision.mode = "sandbox"

\* C15: a decision has shouldCache only when its mode is sandbox,
\* Sandbox.EnableCache is set and the first token of the command is one of npm,
\* yarn, pnpm, pip, pip3, cargo, go, gem, mvn, gradle; a host decision never
\* has shouldCache.
C15_CacheOnlyInSandbox ==
    (pc = "d_done" /\ decision.shouldCache) =>
        /\ decision.mode = "sandbox"
        /\ cfg.enableCache
        /\ cmdArgs[1] \in {"npm", "yarn", "pnpm", "pip", "pip3", "cargo", "go", "gem",
                            "mvn", "gradle"}

C15_Witness ==
    /\ pc = "d_done" /\ cfg.enableCache
    /\ cmdArgs = <<"yarn", "build">>
    /\ decision.mode = "sandbox" /\ decision.shouldCache

(***************************************************************************)
(* Properties of the exec pipeline (Spec)                                  *)
(***************************************************************************)
Refused == pc = "done" /\ children = <<>> /\ osExit = 3

NothingRun == children = <<>> /\ files = files0

\* C2: with Sandbox.Enabled = false, a command with a mandatory-code finding
\* ends with exit code 3, no child spawned and no record appended, in
\* non-interactive runs and in interactive runs whatever the answer is.
C2_DisabledSandboxRefusesMandatory ==
    (~cfg.enabled /\ HasMandatoryCode(findings))
        => (NothingRun /\ (pc = "done" => osExit = 3))

\* C3: a command with a mandatory-code finding is never spawned on the host.
C3_MandatoryNeverOnHost ==
    HasMandatoryCode(findings)
        => \A i \in 1..Len(children) : children[i].where # "host"

\* C5: a non-interactive run of a command whose risk level is critical is
\* refused with exit code 3 before anything is executed: no child, no record.
C5_NonInteractiveCriticalRefused ==
    (pc # "idle" /\ ~interactive /\ riskLevel = "critical")
        => (Refused /\ NothingRun)

C5_Witness ==
    /\ pc = "done" /\ ~interactive /\ riskLevel = "critical" /\ osExit = 3
    /\ flagSession = "s1" /\ IsSession(files["s1"])

\* C6: the answer n at the approval prompt of an interactive run ends the
\* pipeline with exit code 3, no child spawned and no record appended.
C6_AnswerNoRefused ==
    (interactive /\ Normalize(response) = "n") => (Refused /\ NothingRun)

C6_Witness ==
    /\ pc = "done" /\ interactive /\ response = "N" /\ osExit = 3
    /\ env = "s1" /\ IsSession(files["s1"]) /\ Len(files["s1"].commands) = 1

\* C7: a command whose findings all have severity low is never prompted for
\* approval and never refused, in interactive and non-interactive runs.
C7_LowRiskNeverPrompted ==
    (pc # "idle" /\ riskLevel = "low") => (pc # "prompt" /\ ~Refused)

\* C8: the answer r approves the command: it is executed, and the Trust Store
\* holds an entry for it before the child is spawned.
C8_RememberApprovesAndTrusts ==
    (interactive /\ Normalize(response) = "r")
        => (~Refused /\ (Len(children) > 0 => cmdArgs \in trustStore))

\* C9: once the child has been run, the exit status of vectra-guard exec is the
\* child's exit code, whether or not the session record could be loaded or
\* written.
C9_ExitCodeIsChilds ==
    (pc = "done" /\ Len(children) > 0 /\ children[1].outcome.kind = "exited")
        => osExit = children[1].outcome.code

C9_Witness ==
    /\ pc = "done" /\ Len(children) = 1
    /\ children[1].outcome = [kind |-> "exited", code |-> 3]
    /\ osExit = 3
    /\ sessionID = "s1" /\ IsSession(files0["s1"]) /\ files["s1"] = Malformed

BoundTo == IF flagSession # "" THEN flagSession ELSE env

RecordOf(child) ==
    [command   |-> cmdArgs[1],
     args      |-> SubSeq(cmdArgs, 2, Len(cmdArgs)),
     exitCode  |-> IF child.outcome.kind = "exited" THEN child.outcome.code ELSE -1,
     riskLevel |-> riskLevel,
     findings  |-> [i \in 1..Len(findings) |-> findings[i].code]]

SameRecord(rec, want) ==
    /\ rec.command = want.command
    /\ rec.args = want.args
    /\ rec.exitCode = want.exitCode
    /\ rec.riskLevel = want.riskLevel
    /\ rec.findings = want.findings

AppendedOnce(before, after, want) ==
    /\ IsSession(before) /\ IsSession(after)
    /\ Len(after.commands) = Len(before.commands) + 1
    /\ SubSeq(after.commands, 1, Len(before.commands)) = before.commands
    /\ SameRecord(after.commands[Len(after.commands)], want)

Rank(sev) ==
    CASE sev = "low" -> 0 [] sev = "medium" -> 1 [] sev = "high" -> 2 [] sev = "critical" -> 3

\* the severity no finding of fs exceeds and some finding of fs has; low for
\* no findings
MaxSeverity(fs) ==
    CHOOSE sev \in {"low", "medium", "high", "critical"} :
        /\ \A i \in 1..Len(fs) : Rank(fs[i].severity) <= Rank(sev)
        /\ sev = "low" \/ \E i \in 1..Len(fs) : fs[i].severity = sev

Reordered(fs, perm) == [i \in 1..Len(fs) |-> fs[perm[i]]]

\* C11: the risk level is the maximum severity over the findings under
\* low < medium < high < critical, low when there are no findings, and the
\* same for every order in which the findings are listed.
C11_RiskIsMaxSeverity ==
    pc = "r_done" =>
        /\ riskLevel = MaxSeverity(findings)
        /\ \A perm \in Permutations(1..Len(findings)) :
                RiskLevelOf(Reordered(findings, perm)) = riskLevel

C11_Witness ==
    /\ pc = "r_done"
    /\ Len(findings) = 3
    /\ findings[1].severity = "high"
    /\ findings[2].severity = "low"
    /\ findings[3].severity = "medium"
    /\ riskLevel = "high"

(***************************************************************************)
(* Properties of the session ledger (SpecLedger)                           *)
(***************************************************************************)
\* no call of a Manager is under way, and the last call of every client
\* returned nil
Quiet == \A c \in Clients : mpc[c] \in {"idle", "loaded"} /\ merr[c] = ""

IsAddCommand(u) == u.op = "addCommand"

\* the timestamps of the acknowledged Command records, in the order of the
\* acknowledgements
AckedStamps ==
    LET a == SelectSeq(acked, IsAddCommand) IN [i \in 1..Len(a) |-> a[i].n]

IsAckedStamp(t) == \E i \in 1..Len(AckedStamps) : AckedStamps[i] = t

StoredStamps ==
    LET cmds == files[Shared].commands IN [i \in 1..Len(cmds) |-> cmds[i].timestamp]

\* C17: whatever the interleaving of the clients that load the session, append
\* a Command and save, the stored session holds every Command record whose
\* append was acknowledged, in the order of the acknowledgements: none is lost
\* or overwritten.
C17_AckedCommandsStored ==
    (Quiet /\ Len(AckedStamps) > 0) =>
        /\ IsSession(files[Shared])
        /\ SelectSeq(StoredStamps, IsAckedStamp) = AckedStamps

\* C18: a load or a list that runs while another client saves the session
\* reads the whole previous session or the whole new one, never an empty,
\* truncated or partly written file.
C18_ReadersSeeWholeSessions ==
    /\ \A c \in Clients : merr[c] # "parse session"
    /\ listed.skipped = {}

\* C19: an update (addCommand, addFileOperation, end) of a session lowers
\* neither its riskScore nor the number of its commands.
C19_UpdatesNeverLower ==
    [][\A c \in Clients :
          (mpc[c] = "loaded" /\ mpc'[c] = "open") =>
              /\ mem'[c].riskScore >= mem[c].riskScore
              /\ Len(mem'[c].commands) >= Len(mem[c].commands)]_vars

C19_Witness ==
    /\ mpc["c1"] = "open" /\ upd["c1"].op = "end"
    /\ mem["c1"].ended
    /\ mem["c1"].riskScore = 100
    /\ Len(mem["c1"].commands) = 1

CountCommands(s, risk) ==
    Cardinality({i \in 1..Len(s.commands) : s.commands[i].riskLevel = risk})

CountDenied(s) == Cardinality({i \in 1..Len(s.fileOps) : ~s.fileOps[i].allowed})

ScoreAddsUp(s) ==
    /\ s.riskScore = 100 * CountCommands(s, "critical") + 50 * CountCommands(s, "high")
                        + 10 * CountCommands(s, "medium") + 25 * CountDenied(s)
    /\ s.violations = CountCommands(s, "critical") + CountCommands(s, "high")
                         + CountDenied(s)

\* C20: after any sequence of addCommand and addFileOperation calls,
\* riskScore = 100 x critical + 50 x high + 10 x medium commands + 25 x denied
\* file operations and violations = critical + high commands + denied file
\* operations, in the session a client holds and in the stored one; low-risk
\* commands and allowed file operations change neither.
C20_ScoreAndViolations ==
    /\ \A c \in Clients : IsSession(mem[c]) => ScoreAddsUp(mem[c])
    /\ \A id \in SessionIds : IsSession(files[id]) => ScoreAddsUp(files[id])

C20_Witness ==
    /\ IsSession(files[Shared])
    /\ Len(files[Shared].commands) = 1 /\ files[Shared].commands[1].riskLevel = "medium"
    /\ Len(files[Shared].fileOps) = 1 /\ ~files[Shared].fileOps[1].allowed
    /\ files[Shared].riskScore = 35
    /\ files[Shared].violations = 1

(***************************************************************************)
(* Properties of Manager.Start, Load and List (SpecStart)                  *)
(***************************************************************************)
\* C21: any two sessions Start returned have distinct ids, those of calls
\* that read the same clock value too, so that no Start writes over the file
\* of a session started before; the ids order as the sessions were created.
C21_StartIdsDistinct ==
    \A i, j \in 1..Len(started) :
        i < j => /\ started[i].id # started[j].id
                 /\ started[i].id[2] < started[j].id[2]

WellFormed(fs) == {id \in DOMAIN fs : fs[id].kind = "session"}

\* C22: List returns exactly the sessions whose files can be read and parsed:
\* a missing or malformed file makes Load of its id fail, and makes List
\* neither fail nor leave out a well-formed session.
C22_ListSkipsOnlyBadFiles ==
    [][/\ (listed' # listed /\ dirOk) =>
              (listed'.err = "" /\ listed'.ok = WellFormed(files))
       /\ loadRes' # loadRes =>
              (loadRes'.err = "" <=> loadRes'.id \in WellFormed(files))]_vars

C22_Witness ==
    /\ listed.err = ""
    /\ listed.ok = {generateSessionID(0), generateSessionID(2)}
    /\ listed.skipped = {generateSessionID(1)}
    /\ loadRes = [id |-> generateSessionID(1), err |-> "parse session"]

(***************************************************************************)
(* Properties of Daemon.Start (SpecDaemon)                                 *)
(***************************************************************************)
\* the daemon processes between a successful acquireLock and releaseLock
Holding == {p \in Daemons : dpc[p] \in {"pid", "session", "run", "end", "rmpid", "release"}}

\* the daemon processes whose PID file is written and not yet removed by them
Running(p) == dpc[p] \in {"session", "run", "end"}

\* C23: at most one daemon runs on a workspace however the Start calls
\* interleave; every other Start returns an error, and leaves the lockfile
\* and the PID file of the running daemon as they are.
C23_OneDaemonPerWorkspace ==
    [][/\ Cardinality(Holding) <= 1
       /\ \A p \in Daemons : Running(p) =>
              /\ lockFile /\ pidFile = dpid[p]
              /\ \A q \in Daemons \ {p} :
                     /\ (dret'[q] # dret[q] /\ dret'[q] # "") =>
                            dret'[q] \in {"daemon already running", "acquire lock", "killed"}
                     /\ dpc'[q] # dpc[q] => (lockFile' /\ pidFile' = pidFile)]_vars

C23_Witness ==
    \E p, q \in Daemons :
        /\ Running(p)
        /\ dret[q] = "acquire lock"
        /\ dpid[q] < dpid[p]

\* C24: once the lockfile was acquired, every way Start ends removes the
\* lockfile and the PID file, so that no daemon process is left with either
\* file present and no stale lockfile keeps a later Start from running.
C24_FilesRemovedOnEveryExit ==
    (\A p \in Daemons : dpc[p] = "off") => (~lockFile /\ pidFile = 0)

\* C27 as stated: when Start is returning after a trigger, the session file
\* holds the ended session before the PID file and the lockfile are removed.
C27_EndPersistedBeforeCleanup ==
    \A p \in Daemons :
        (dtrigger[p] # None /\ dpc[p] \in {"rmpid", "release"}) =>
            /\ dsess[p].ended
            /\ files[dsess[p].id] = dsess[p]

\* C27: when Start is returning after a trigger, End has marked the session
\* ended and has written it to the session file unless that write failed and
\* was logged, all before the PID file and the lockfile are removed.
C27_EndedBeforeCleanup ==
    \A p \in Daemons :
        (dtrigger[p] # None /\ dret[p] = "nil") =>
            /\ dsess[p].ended
            /\ dendErr[p] = "" => files[dsess[p].id] = dsess[p]
            /\ dpc[p] = "rmpid" => (lockFile /\ pidFile = dpid[p])

C27_Witness ==
    \E p \in Daemons :
        /\ dtrigger[p] = "signal"
        /\ dpc[p] = "off"
        /\ dret[p] = "nil"
        /\ dendErr[p] = ""
        /\ files[dsess[p].id].ended

(***************************************************************************)
(* Properties of InterceptCommand (SpecIntercept)                          *)
(***************************************************************************)
\* C25: every InterceptCommand call returns within the five seconds of the
\* approval timeout, also when the queue is full or the processor has
\* exited: no call is under way for longer.
C25_ReturnsWithinTimeout ==
    \A c \in Callers : calls[c].elapsed <= ApprovalTimeout

\* C26: every InterceptCommand call that starts after a stop trigger
\* returns false.
C26_DeniedAfterStop ==
    \A c \in Callers :
        (calls[c].afterStop /\ calls[c].pc = "done") => calls[c].result = "false"

(***************************************************************************)
(* Properties of the Trust Store (SpecTrust)                               *)
(***************************************************************************)
\* C28: lookup returns an entry exactly when the store holds one for the
\* fingerprint whose expiresAt is unset or later than now: from the moment
\* the clock reaches expiresAt no lookup returns the entry, cleaned or not,
\* and a cleanExpired that succeeds leaves no such entry and keeps the others.
C28_ExpiredEntriesAbsent ==
    [][/\ tlast'.op = "lookup" =>
              LET e == tmem[Fingerprint(tres'.cmd)]
              IN  /\ tres'.entry.kind = "entry" <=>
                        (e.kind = "entry" /\ (e.expiresAt = 0 \/ tnow < e.expiresAt))
                  /\ tres'.entry.kind = "entry" => tres'.entry = e
       /\ (tlast'.op = "clean" /\ tlast'.ok) =>
              \A f \in Fingerprints :
                  /\ tmem'[f].kind = "entry" =>
                        (tmem'[f].expiresAt = 0 \/ tnow < tmem'[f].expiresAt)
                  /\ (tmem[f].kind = "entry" /\ (tmem[f].expiresAt = 0 \/ tnow < tmem[f].expiresAt))
                        => tmem'[f] = tmem[f]]_vars

C28_Witness ==
    /\ tlast.op = "lookup"
    /\ tres.entry = NoEntry
    /\ tmem[Fingerprint(tres.cmd)].kind = "entry"
    /\ tmem[Fingerprint(tres.cmd)].expiresAt = tnow

Range(q) == { q[i] : i \in 1..Len(q) }

\* the entries trust.json holds; none when it is missing or malformed
LastPersisted == IF tfile.kind = "store" THEN tfile.entries ELSE {}

\* C29: after adds and removes and a restart that read the store file,
\* list() returns exactly the entries last persisted that are not expired,
\* addedAt ascending.
C29_TrustRoundTrip ==
    [][(tlast'.op = "list" /\ tloaded = "ok") =>
          /\ Range(tlist') = { e \in LastPersisted : e.expiresAt = 0 \/ tnow < e.expiresAt }
          /\ Len(tlist') = Cardinality(Range(tlist'))
          /\ \A i, j \in 1..Len(tlist') : i < j => tlist'[i].addedAt <= tlist'[j].addedAt]_vars

C29_Witness ==
    /\ tlast.op = "list"
    /\ tloaded = "ok"
    /\ tfile.kind = "store"
    /\ Len(tlist) = 1
    /\ Cardinality(tfile.entries) = 2
    /\ Range(tlist) = { e \in tfile.entries : e.expiresAt = 0 \/ tnow < e.expiresAt }

(***************************************************************************)
(* Properties of the argument list (SpecDocker)                            *)
(***************************************************************************)
Occurrences(q, tok) == Cardinality({i \in 1..Len(q) : q[i] = tok})

\* C30 as stated: in every argument list built, --rm appears exactly once,
\* the image name exactly once and just before the command tokens, and the
\* list ends with the command tokens, whatever the command tokens are.
C30_RmAndImageOnce ==
    dockerArgs # <<>> =>
        /\ Occurrences(dockerArgs, "--rm") = 1
        /\ Occurrences(dockerArgs, sandboxCfg.image) = 1
        /\ dockerArgs[Len(dockerArgs) - Len(sandboxCmd)] = sandboxCfg.image
        /\ SubSeq(dockerArgs, Len(dockerArgs) - Len(sandboxCmd) + 1, Len(dockerArgs))
               = sandboxCmd

\* C30: in every argument list built, the list ends with the command tokens,
\* and the tokens before them hold --rm exactly once and the image name
\* exactly once, as their last token; command tokens equal to --rm or to the
\* image name appear once more each, among the command tokens.
C30_RmAndImageOnceBeforeCommand ==
    dockerArgs # <<>> =>
        LET n      == Len(dockerArgs) - Len(sandboxCmd)
            before == SubSeq(dockerArgs, 1, n)
        IN  /\ n >= 1
            /\ Occurrences(before, "--rm") = 1
            /\ Occurrences(before, sandboxCfg.image) = 1
            /\ dockerArgs[n] = sandboxCfg.image
            /\ SubSeq(dockerArgs, n + 1, Len(dockerArgs)) = sandboxCmd
            /\ Occurrences(dockerArgs, "--rm") = 1 + Occurrences(sandboxCmd, "--rm")
            /\ Occurrences(dockerArgs, sandboxCfg.image)
                   = 1 + Occurrences(sandboxCmd, sandboxCfg.image)

C30_Witness ==
    /\ dockerArgs # <<>>
    /\ sandboxCmd = <<"--rm", Image>>
    /\ sandboxCfg.level = "strict"
    /\ Occurrences(dockerArgs, "--rm") = 2

(***************************************************************************)
(* Properties of the Analyzer (SpecAnalyze)                                *)
(***************************************************************************)
RECURSIVE BeforeComment(_)
\* the tokens of a line before its first #
BeforeComment(line) ==
    IF line = <<>> \/ line[1] = "#" THEN <<>>
    ELSE <<line[1]>> \o BeforeComment(Tail(line))

\* C31: for each of the root deletes rm -r /, rm -rf /, rm -r /*, rm -rf /*,
\* rm -r / *, rm -rf / *, rm -rf /bin, rm -rf /usr and rm -rf /etc, with a
\* trailing comment or without, the analyzer emits a DANGEROUS_DELETE_ROOT
\* finding of severity critical.
C31_RootDeletesDetected ==
    (pc = "a_done" /\ BeforeComment(cmdArgs) \in RootDeleteLines) =>
        \E i \in 1..Len(findings) :
            findings[i] = [code |-> "DANGEROUS_DELETE_ROOT", severity |-> "critical"]

C31_Witness ==
    /\ pc = "a_done"
    /\ cmdArgs = <<"rm", "-rf", "/", "*", "#", "comment">>
    /\ findingCodes = <<"DANGEROUS_DELETE_ROOT">>
    /\ riskLevel = "critical"

(***************************************************************************)
(* Properties of a session that is ended while others append (SpecLedger)  *)
(***************************************************************************)
\* the timestamps of the acknowledged updates of one kind
StampsOf(op) == { acked[i].n : i \in {j \in 1..Len(acked) : acked[j].op = op} }

\* C32: when the holder of a session ends it, as the daemon does on its stop,
\* the stored session still holds every Command and FileOperation record the
\* other clients appended before: the end changes the end time only.
C32_EndKeepsAppendedRecords ==
    (Quiet /\ Len(acked) > 0 /\ acked[Len(acked)].op = "end") =>
        /\ IsSession(files[Shared])
        /\ files[Shared].ended
        /\ StampsOf("addCommand")
               \subseteq { files[Shared].commands[i].timestamp :
                               i \in 1..Len(files[Shared].commands) }
        /\ StampsOf("addFileOperation")
               \subseteq { files[Shared].fileOps[i].timestamp :
                               i \in 1..Len(files[Shared].fileOps) }

(***************************************************************************)
(* Further properties of the execution decision (SpecDecide)               *)
(***************************************************************************)
\* C33: under Mode risky a command of low risk is decided mode = host, a
\* networked install such as `npm install express` too; apart from Mode
\* always, a command of low risk is sandboxed only under Mode auto and only
\* when it is a networked install.
C33_InstallSandboxedOnlyInAuto ==
    (pc = "d_done" /\ riskLevel = "low") =>
        /\ cfg.mode = "risky" => decision.mode = "host"
        /\ (decision.mode = "sandbox" /\ cfg.mode # "always") =>
              (cfg.mode = "auto" /\ NetworkedInstall)

C33_Witness ==
    /\ pc = "d_done" /\ riskLevel = "low" /\ findings = <<>>
    /\ cfg.enabled /\ cfg.mode = "risky" /\ cfg.allowlist = {}
    /\ cmdArgs = <<"npm", "install", "express">>
    /\ decision = OnHost("")

WrittenRecord == files[sessionID].commands[Len(files[sessionID].commands)]

\* the user answered the prompt of this invocation with an approval
ApprovedAtPrompt == interactive /\ response # None /\ promptForApproval(response)

\* C35: a Command record the exec pipeline writes has approved = true only
\* when the risk level is low or the user approved the command at the
\* interactive prompt of that invocation; a written record of risk level
\* critical always has approved = true.
C35_ApprovedMeansLowOrPrompted ==
    [][(pc = "save" /\ pc' = "return" /\ ledgerErr' = "") =>
          /\ WrittenRecord'.approved =>
                (WrittenRecord'.riskLevel = "low" \/ ApprovedAtPrompt')
          /\ WrittenRecord'.riskLevel = "critical" => WrittenRecord'.approved]_vars

C35_Witness ==
    /\ pc = "return" /\ ledgerErr = "" /\ sessionID = "s1" /\ IsSession(files["s1"])
    /\ files["s1"] # files0["s1"]
    /\ interactive /\ response = "yes"
    /\ WrittenRecord.riskLevel = "critical" /\ WrittenRecord.approved

(***************************************************************************)
(* Further properties of the session ledger (SpecLedger)                   *)
(***************************************************************************)
\* the timestamps of the records of the stored session
StoredRecordStamps ==
    { files[Shared].commands[i].timestamp : i \in 1..Len(files[Shared].commands) }
        \cup { files[Shared].fileOps[i].timestamp : i \in 1..Len(files[Shared].fileOps) }

\* C36: once End has set the end time of the session and the end is saved,
\* the stored session holds no Command or FileOperation record that was
\* appended later than the end: all records lie between start and end.
C36_NoRecordAfterEnd ==
    IsSession(files[Shared]) =>
        \A i \in 1..Len(acked) :
            acked[i].op = "end" => \A t \in StoredRecordStamps : t < acked[i].n

(***************************************************************************)
(* Further properties of InterceptCommand and Stop (SpecIntercept)         *)
(***************************************************************************)
\* C37: a call of InterceptCommand made while the daemon has no session
\* returns true at once and queues nothing, and a call made while there is a
\* session is queued; a call returns true in that case only, or with the
\* approval the processor sent on its channel, which the processor sends
\* for the Command at the head of the queue only.
C37_AllowedWithoutAnswerOnlyWithoutSession ==
    [][\A c \in Callers :
          /\ (calls[c].pc = "idle" /\ calls'[c].pc # "idle") =>
                IF active
                THEN calls'[c].pc = "send" /\ calls'[c].result = None
                ELSE /\ calls'[c].pc = "done" /\ calls'[c].result = "true"
                     /\ interceptCh' = interceptCh
          /\ (calls[c].result # "true" /\ calls'[c].result = "true") =>
                \/ calls[c].pc = "idle" /\ ~active
                \/ calls[c].pc = "wait" /\ calls[c].reply = "true"
          /\ (calls[c].reply = None /\ calls'[c].reply = "true") =>
                /\ processor = "running"
                /\ interceptCh # <<>> /\ Head(interceptCh) = c]_vars

C37_Witness ==
    /\ calls[1].pc = "done" /\ calls[1].result = "true" /\ calls[1].elapsed = 0
    /\ active /\ processor = "running"
    /\ calls[2].pc = "done" /\ calls[2].result = "true" /\ calls[2].elapsed > 0
    /\ interceptCh = <<>>

\* C38: the processor never waits to deliver a reply: while it runs and a
\* Command is queued its step can be taken, also when the caller of the
\* Command at the head has timed out and left; the step takes that Command
\* off the queue and changes no reply channel but that of its caller.
C38_ReplyNeverBlocks ==
    /\ []((Alive /\ processor = "running" /\ interceptCh # <<>>) => ENABLED ProcessCommand)
    /\ [][\A c \in Callers :
              calls'[c].reply # calls[c].reply /\ calls'[c].reply # None =>
                  /\ interceptCh # <<>> /\ Head(interceptCh) = c
                  /\ interceptCh' = Tail(interceptCh)
                  /\ \A b \in Callers \ {c} : calls'[b] = calls[b]]_vars

C38_Witness ==
    /\ calls[1].pc = "done" /\ calls[1].result = "false" /\ calls[1].reply = "true"
    /\ calls[2].pc = "done" /\ calls[2].result = "true"
    /\ processor = "running"

\* C39: Stop can be called any number of times, by any goroutine: no call of
\* it fails; after the first call d.stopCh stays closed and the process runs on.
C39_StopNeverFails == stopCh \in {"open", "closed"}

====
